---- MODULE Spec2Model ----
(***************************************************************************)
(* Model of the Jacques hook scripts' token-estimate calibration store     *)
(* (hooks/adapters/calibration.py), of the hooks that use it               *)
(* (hooks/cursor/after-agent-response.py, pre-compact.py, session-end.py,  *)
(* session-start.py), of the report parser (context_parser.py), of the     *)
(* token and skill estimates (tokenizer.py, skills.py) and of the event    *)
(* transport (base.py).                                                    *)
(*                                                                         *)
(* A Python dict is a function whose domain is the set of its keys; None   *)
(* is the empty tuple and a present optional value v is <<v>>.  A float    *)
(* factor is the exact fraction <<n, d>> in lowest terms (d > 0).          *)
(***************************************************************************)
EXTENDS Integers, Sequences, FiniteSets, TLC

VARIABLES
    file,       \* content of ~/.jacques/calibration.json (of the skill
                \* directories where skills.py is modelled, of the fallback
                \* file where base.py is modelled)
    cache,      \* per invocation: _calibration_cache (_skills_cache where
                \* skills.py is modelled)
    loaded,     \* per invocation: _cache_loaded
    now,        \* time.time(), in days
    pc,         \* per invocation: position inside the running store call
    call,       \* per invocation: its current (or last finished) call
    started,    \* number of writing store calls (concurrent invocations) or
                \* of hook invocations begun so far
    hook,       \* the hook invocation that ran last, with its input
    emitted     \* the payload the last hook invocation sent to the collector
                \* (every character the collector received where base.py is
                \* modelled)

vars == <<file, cache, loaded, now, pc, call, started, hook, emitted>>

----------------------------------------------------------------------------
(* Bounds of the model *)

\* estimates passed to set_last_estimate range over -1 .. MaxEstimate
MaxEstimate == 2
\* actual token counts passed to calibrate_from_actual: 0 .. MaxActual
MaxActual == 3
\* the clock advances at most MaxTicks times (one day each)
MaxTicks == 2
\* concurrent invocations begin at most MaxCalls writing store calls in all
MaxCalls == 3
\* at most MaxHooks hook invocations run one after the other
MaxHooks == 3
\* a transcript holds 0 .. MaxTurns thousand tokens
MaxTurns == 1
\* 0 .. MaxSkills SKILL.md files are installed
MaxSkills == 1
\* preCompact reports -1 .. MaxContext times three thousand context tokens
\* (0 also where the input has no context_tokens)
MaxContext == 2
\* a report holds 0 .. MaxLines lines
MaxLines == 3
\* a report of sections holds the marker and 0 .. MaxItemLines lines
MaxItemLines == 4
\* token counts passed to the percentages: 0 .. MaxSteps times 88
MaxSteps == 3
\* a text is a word written 0 .. MaxRepeats times
MaxRepeats == 4
\* get_initial_context_estimate finds 0 .. MaxSkillFiles SKILL.md files
MaxSkillFiles == 2
\* a process calls estimate_skill_tokens and clear_cache MaxSkillCalls times
\* in all
MaxSkillCalls == 4

SessionIds == {"s1", "s2"}
Procs == {"p1", "p2"}

\* 86400 seconds, in clock units
DAY == 1
\* the clock at the first hook invocation: later than one day after the epoch
StartTime == DAY + 1

----------------------------------------------------------------------------
(* Python values *)

None == <<>>
Some(v) == <<v>>
EmptyDict == [k \in {} |-> 0]
Put(d, k, v) == [x \in DOMAIN d \cup {k} |-> IF x = k THEN v ELSE d[x]]
Del(d, k) == [x \in DOMAIN d \ {k} |-> d[x]]
Get(d, k, default) == IF k \in DOMAIN d THEN d[k] ELSE default

RECURSIVE GCD(_, _)
GCD(a, b) == IF b = 0 THEN a ELSE GCD(b, a % b)

\* the float n / d  (n >= 0, d > 0)
Frac(n, d) == LET g == GCD(n, d) IN <<n \div g, d \div g>>
One == <<1, 1>>
Half == <<1, 2>>
Two == <<2, 1>>
Less(a, b) == a[1] * b[2] < b[1] * a[2]
FAdd(a, b) == Frac(a[1] * b[2] + b[1] * a[2], a[2] * b[2])
FDivInt(a, n) == Frac(a[1], a[2] * n)
FMin(a, b) == IF Less(b, a) THEN b ELSE a
FMax(a, b) == IF Less(a, b) THEN b ELSE a
\* int(tokens * factor) for tokens >= 0
IntMul(tokens, f) == (tokens * f[1]) \div f[2]

Estimates == (-1) .. MaxEstimate
Actuals == 0 .. MaxActual
Factors == {Frac(n, d) : n \in Actuals, d \in 1 .. MaxEstimate}

----------------------------------------------------------------------------
(* calibration.py: the functions on the in-memory dict *)

\* _load_calibration, lines 38-41: the structure before the file is read
DefaultData == [sessions |-> EmptyDict, global_factor |-> One]

\* the file: absent; of length zero (just opened for writing); the bytes of
\* two writers mixed; or the JSON text of a dict
Missing == [kind |-> "missing"]
Empty == [kind |-> "empty"]
Corrupt == [kind |-> "corrupt"]
Json(data) == [kind |-> "json", data |-> data]

\* _load_calibration: the dict the call returns, given the invocation's cache
\* and the file content f it would read
load_calibration(c, l, f) ==
    IF l /\ c # None THEN c[1]
    ELSE IF f.kind = "json"
         THEN [k \in DOMAIN DefaultData \cup DOMAIN f.data |->
                  IF k \in DOMAIN f.data THEN f.data[k] ELSE DefaultData[k]]
         ELSE DefaultData

\* get_factor falling back to the cross-session average
get_factor_average(data, session_id) ==
    LET session_data == Get(data.sessions, session_id, None)
    IN IF session_data # None /\ session_data # EmptyDict
          /\ "factor" \in DOMAIN session_data
       THEN session_data["factor"]
       ELSE data.global_factor

get_factor(data, session_id) ==
    LET session_data == Get(data.sessions, session_id, None)
    IN IF session_data # None /\ session_data # EmptyDict
          /\ "factor" \in DOMAIN session_data
       THEN session_data["factor"]
       ELSE One

\* clamp without the upper limit
clamp_low_only(factor) == FMax(Half, factor)

\* set_factor, line 109
clamp(factor) == FMax(Half, FMin(Two, factor))

RECURSIVE SumFactors(_, _)
SumFactors(S, sessions) ==
    IF S = {} THEN <<0, 1>>
    ELSE LET s == CHOOSE x \in S : TRUE
         IN FAdd(Get(sessions[s], "factor", One), SumFactors(S \ {s}, sessions))

\* the average taken over every record, whatever its age
recent_sessions_all(sessions, t) == DOMAIN sessions

recent_sessions(sessions, t) ==
    {s \in DOMAIN sessions : Get(sessions[s], "updated_at", 0) > t - DAY}

set_factor(data, session_id, factor, t) ==
    LET sessions == Put(data.sessions, session_id,
                        [factor |-> clamp(factor), updated_at |-> t])
        recent == recent_sessions(sessions, t)
    IN [data EXCEPT
          !.sessions = sessions,
          !.global_factor =
              IF recent # {}
              THEN FDivInt(SumFactors(recent, sessions), Cardinality(recent))
              ELSE @]

get_last_estimate(data, session_id) ==
    LET session_data == Get(data.sessions, session_id, None)
    IN IF session_data # None /\ session_data # EmptyDict
       THEN IF "last_estimate" \in DOMAIN session_data
            THEN Some(session_data["last_estimate"])
            ELSE None
       ELSE None

\* set_last_estimate keeping no record but the one it writes
set_last_estimate_alone(data, session_id, tokens, t) ==
    LET rec == Get(data.sessions, session_id, EmptyDict)
    IN [data EXCEPT !.sessions =
          Put(EmptyDict, session_id,
              Put(Put(rec, "last_estimate", tokens), "estimate_time", t))]

set_last_estimate(data, session_id, tokens, t) ==
    LET rec == Get(data.sessions, session_id, EmptyDict)
    IN [data EXCEPT !.sessions =
          Put(@, session_id,
              Put(Put(rec, "last_estimate", tokens), "estimate_time", t))]

\* calibrate_from_actual, line 189: "not estimated or estimated <= 0"
no_estimate(estimated) ==
    estimated = None \/ estimated[1] = 0 \/ estimated[1] <= 0

\* calibrate_from_actual, lines 196-200: the record after the second write
store_actual(data, session_id, actual_tokens, t) ==
    IF session_id \in DOMAIN data.sessions
    THEN [data EXCEPT !.sessions[session_id] =
            Put(Put(@, "last_actual", actual_tokens), "calibrated_at", t)]
    ELSE data

\* clear_session deleting the factor and keeping the rest of the record
clear_session_factor_only(data, session_id) ==
    IF session_id \in DOMAIN data.sessions
    THEN [data EXCEPT !.sessions[session_id] = Del(@, "factor")]
    ELSE data

clear_session(data, session_id) ==
    IF session_id \in DOMAIN data.sessions
    THEN [data EXCEPT !.sessions = Del(@, session_id)]
    ELSE data

----------------------------------------------------------------------------
(* State after the module is imported by the first invocation *)

NoCall == [name |-> "none", session_id |-> "", arg |-> None,
           estimated |-> None, ret |-> None, saves |-> 0, read |-> "none"]
NoHook == [name |-> "none"]

Init ==
    /\ file = Missing
    /\ cache = [p \in Procs |-> None]
    /\ loaded = [p \in Procs |-> FALSE]
    /\ now = StartTime
    /\ pc = [p \in Procs |-> "idle"]
    /\ call = [p \in Procs |-> NoCall]
    /\ started = 0
    /\ hook = NoHook
    /\ emitted = None

\* the dict _load_calibration returns to invocation p in the current state
Data(p) == load_calibration(cache[p], loaded[p], file)

\* what the call's _load_calibration reads: its cache, or the file
ReadKind(p) == IF loaded[p] /\ cache[p] # None THEN "cache" ELSE file.kind

\* a store call of invocation p: name and arguments, the local `estimated`,
\* the value returned, the number of _save_calibration calls made, and what
\* _load_calibration read at its start
CallOf(p, name, session_id, arg, estimated, ret, saves) ==
    [name |-> name, session_id |-> session_id, arg |-> arg,
     estimated |-> estimated, ret |-> ret, saves |-> saves,
     read |-> ReadKind(p)]

\* a call that only reads: the cache is filled, nothing is written
Finish(p, data, c) ==
    /\ cache' = [cache EXCEPT ![p] = Some(data)]
    /\ loaded' = [loaded EXCEPT ![p] = TRUE]
    /\ call' = [call EXCEPT ![p] = c]
    /\ UNCHANGED <<now, pc, started, hook, emitted>>

\* _save_calibration without I/O error: the whole cache replaces the file
FinishSaved(p, data, c) ==
    /\ Finish(p, data, c)
    /\ file' = Json(data)

----------------------------------------------------------------------------
(* The public operations, each run to completion by one invocation *)

GetFactor(p, session_id) ==
    LET data == Data(p)
    IN /\ Finish(p, data, CallOf(p, "get_factor", session_id, None, None,
                                 Some(get_factor(data, session_id)), 0))
       /\ UNCHANGED file

SetFactor(p, session_id, factor) ==
    LET data == set_factor(Data(p), session_id, factor, now)
    IN FinishSaved(p, data, CallOf(p, "set_factor", session_id, Some(factor),
                                   None, None, 1))

GetLastEstimate(p, session_id) ==
    LET data == Data(p)
    IN /\ Finish(p, data, CallOf(p, "get_last_estimate", session_id, None, None,
                                 get_last_estimate(data, session_id), 0))
       /\ UNCHANGED file

SetLastEstimate(p, session_id, tokens) ==
    LET data == set_last_estimate(Data(p), session_id, tokens, now)
    IN FinishSaved(p, data, CallOf(p, "set_last_estimate", session_id,
                                   Some(tokens), None, None, 1))

\* calibrate_from_actual, line 192 and line 202: the value returned
calibrate_factor(actual_tokens, estimated) == Frac(actual_tokens, estimated)

\* calibrate_from_actual recording the actual count before it looks for an
\* estimate
CalibrateFromActual_records_first(p, session_id, actual_tokens) ==
    LET data == store_actual(Data(p), session_id, actual_tokens, now)
        estimated == get_last_estimate(data, session_id)
    IN IF no_estimate(estimated)
       THEN FinishSaved(p, data, CallOf(p, "calibrate_from_actual", session_id,
                                        Some(actual_tokens), estimated, None, 1))
       ELSE LET factor == calibrate_factor(actual_tokens, estimated[1])
                data1 == set_factor(data, session_id, factor, now)
                data2 == store_actual(data1, session_id, actual_tokens, now)
            IN FinishSaved(p, data2,
                           CallOf(p, "calibrate_from_actual", session_id,
                                  Some(actual_tokens), estimated, Some(factor), 2))

CalibrateFromActual(p, session_id, actual_tokens) ==
    LET data == Data(p)
        estimated == get_last_estimate(data, session_id)
    IN IF no_estimate(estimated)
       THEN /\ Finish(p, data, CallOf(p, "calibrate_from_actual", session_id,
                                      Some(actual_tokens), estimated, None, 0))
            /\ UNCHANGED file
       ELSE LET factor == calibrate_factor(actual_tokens, estimated[1])
                data1 == set_factor(data, session_id, factor, now)
                data2 == store_actual(data1, session_id, actual_tokens, now)
            IN FinishSaved(p, data2,
                           CallOf(p, "calibrate_from_actual", session_id,
                                  Some(actual_tokens), estimated, Some(factor),
                                  IF session_id \in DOMAIN data1.sessions
                                  THEN 2 ELSE 1))

ClearSession(p, session_id) ==
    LET data == Data(p)
    IN IF session_id \in DOMAIN data.sessions
       THEN FinishSaved(p, clear_session(data, session_id),
                        CallOf(p, "clear_session", session_id, None, None, None, 1))
       ELSE /\ Finish(p, data,
                      CallOf(p, "clear_session", session_id, None, None, None, 0))
            /\ UNCHANGED file

\* the hook process exits; the next one imports the module afresh
NewInvocation(p) ==
    /\ cache[p] # None
    /\ cache' = [cache EXCEPT ![p] = None]
    /\ loaded' = [loaded EXCEPT ![p] = FALSE]
    /\ call' = [call EXCEPT ![p] = NoCall]
    /\ pc[p] = "idle"
    /\ UNCHANGED <<file, now, pc, started, hook, emitted>>

\* a day passes between two hook invocations
Tick ==
    /\ now < StartTime + MaxTicks
    /\ now' = now + 1
    /\ UNCHANGED <<file, cache, loaded, pc, call, started, hook, emitted>>

Main == "p1"

Next ==
    \/ \E s \in SessionIds : GetFactor(Main, s)
    \/ \E s \in SessionIds, f \in Factors : SetFactor(Main, s, f)
    \/ \E s \in SessionIds : GetLastEstimate(Main, s)
    \/ \E s \in SessionIds, t \in Estimates : SetLastEstimate(Main, s, t)
    \/ \E s \in SessionIds, a \in Actuals : CalibrateFromActual(Main, s, a)
    \/ \E s \in SessionIds : ClearSession(Main, s)
    \/ NewInvocation(Main)

Spec == Init /\ [][Next]_vars

----------------------------------------------------------------------------
(* Concurrent hook invocations: each is a process with its own cache; a    *)
(* store call is split where it touches the file.  _load_calibration reads  *)
(* the file in one step; _save_calibration opens it for writing, which     *)
(* truncates it (line 59), and json.dump then writes the text (line 60).   *)

\* the in-memory part of a writing call, up to its first _save_calibration
Begin(p, data, c) ==
    /\ pc[p] = "idle"
    /\ started < MaxCalls
    /\ cache' = [cache EXCEPT ![p] = Some(data)]
    /\ loaded' = [loaded EXCEPT ![p] = TRUE]
    /\ call' = [call EXCEPT ![p] = c]
    /\ pc' = [pc EXCEPT ![p] = "open"]
    /\ started' = started + 1
    /\ UNCHANGED <<file, now, hook, emitted>>

BeginGetFactor(p, session_id) ==
    /\ pc[p] = "idle"
    /\ GetFactor(p, session_id)

BeginGetLastEstimate(p, session_id) ==
    /\ pc[p] = "idle"
    /\ GetLastEstimate(p, session_id)

BeginSetFactor(p, session_id, factor) ==
    Begin(p, set_factor(Data(p), session_id, factor, now),
          CallOf(p, "set_factor", session_id, Some(factor), None, None, 0))

BeginSetLastEstimate(p, session_id, tokens) ==
    Begin(p, set_last_estimate(Data(p), session_id, tokens, now),
          CallOf(p, "set_last_estimate", session_id, Some(tokens), None, None, 0))

BeginCalibrateFromActual(p, session_id, actual_tokens) ==
    LET data == Data(p)
        estimated == get_last_estimate(data, session_id)
    IN IF no_estimate(estimated)
       THEN /\ pc[p] = "idle"
            /\ CalibrateFromActual(p, session_id, actual_tokens)
       ELSE LET factor == calibrate_factor(actual_tokens, estimated[1])
            IN Begin(p, set_factor(data, session_id, factor, now),
                     CallOf(p, "calibrate_from_actual", session_id,
                            Some(actual_tokens), estimated, Some(factor), 0))

BeginClearSession(p, session_id) ==
    IF session_id \in DOMAIN Data(p).sessions
    THEN Begin(p, clear_session(Data(p), session_id),
               CallOf(p, "clear_session", session_id, None, None, None, 0))
    ELSE /\ pc[p] = "idle"
         /\ ClearSession(p, session_id)

\* _save_calibration waiting until no other invocation is saving
SaveOpen_waiting(p) ==
    /\ pc[p] = "open"
    /\ \A q \in Procs \ {p} : pc[q] = "idle"
    /\ file' = Empty
    /\ pc' = [pc EXCEPT ![p] = "write"]
    /\ UNCHANGED <<cache, loaded, now, call, started, hook, emitted>>

\* _save_calibration, line 59: open(CALIBRATION_PATH, 'w')
SaveOpen(p) ==
    /\ pc[p] = "open"
    /\ file' = Empty
    /\ pc' = [pc EXCEPT ![p] = "write"]
    /\ UNCHANGED <<cache, loaded, now, call, started, hook, emitted>>

\* the text of invocation p's cache written from offset 0: the file holds
\* it alone unless another writer's longer text was written after p opened
\* the file, whose tail then remains (byte lengths are not modelled: a text
\* other than p's own may be longer)
Written(p) ==
    IF file.kind = "empty" \/ file = Json(cache[p][1])
    THEN {Json(cache[p][1])}
    ELSE {Json(cache[p][1]), Corrupt}

\* _save_calibration, line 60, and what the call does after it: set_factor,
\* set_last_estimate and clear_session return; calibrate_from_actual goes on
\* to lines 196-200 and saves a second time
SaveWrite(p) ==
    /\ pc[p] = "write"
    /\ file' \in Written(p)
    /\ IF call[p].name = "calibrate_from_actual" /\ call[p].saves = 0
          /\ call[p].session_id \in DOMAIN cache[p][1].sessions
       THEN /\ cache' = [cache EXCEPT ![p] =
                  Some(store_actual(cache[p][1], call[p].session_id,
                                    call[p].arg[1], now))]
            /\ pc' = [pc EXCEPT ![p] = "open"]
       ELSE /\ pc' = [pc EXCEPT ![p] = "idle"]
            /\ UNCHANGED cache
    /\ call' = [call EXCEPT ![p].saves = @ + 1]
    /\ UNCHANGED <<loaded, now, started, hook, emitted>>

\* the values concurrent invocations pass: the interleaving is what varies
ConcFactors == {Half}
ConcEstimates == {MaxEstimate}
ConcActuals == {MaxActual}

NextConc ==
    \E p \in Procs :
        \/ \E s \in SessionIds : BeginGetFactor(p, s)
        \/ \E s \in SessionIds : BeginGetLastEstimate(p, s)
        \/ \E s \in SessionIds, f \in ConcFactors : BeginSetFactor(p, s, f)
        \/ \E s \in SessionIds, t \in ConcEstimates : BeginSetLastEstimate(p, s, t)
        \/ \E s \in SessionIds, a \in ConcActuals : BeginCalibrateFromActual(p, s, a)
        \/ \E s \in SessionIds : BeginClearSession(p, s)
        \/ SaveOpen(p)
        \/ SaveWrite(p)
        \/ NewInvocation(p)

SpecConc == Init /\ [][NextConc]_vars

----------------------------------------------------------------------------
(* tokenizer.py and skills.py: what the estimation hook adds to the count *)

\* a model name is the sequence of its characters; None and "" are <<>>
Contains(key, text) ==
    \E i \in 1 .. (Len(text) - Len(key) + 1) :
        SubSeq(text, i, i + Len(key) - 1) = key

\* str.lower() on the letters the names of the model use
UpperCase == [A |-> "a", C |-> "c", D |-> "d", E |-> "e", F |-> "f", G |-> "g",
              H |-> "h", L |-> "l", M |-> "m", P |-> "p", S |-> "s", T |-> "t",
              U |-> "u"]
Lower(text) ==
    [i \in 1 .. Len(text) |->
        IF text[i] \in DOMAIN UpperCase THEN UpperCase[text[i]] ELSE text[i]]

\* THINKING_MULTIPLIERS, in the order of the dict
THINKING_MULTIPLIERS ==
    << [mode |-> <<"h", "i", "g", "h", "-", "t", "h", "i", "n", "k", "i", "n", "g">>, multiplier |-> 5],
       [mode |-> <<"t", "h", "i", "n", "k", "i", "n", "g">>, multiplier |-> 3],
       [mode |-> <<"m", "a", "x">>, multiplier |-> 2] >>

get_thinking_multiplier(model) ==
    IF model = <<>> THEN 1
    ELSE LET model_lower == Lower(model)
             hits == {i \in 1 .. Len(THINKING_MULTIPLIERS) :
                         Contains(THINKING_MULTIPLIERS[i].mode, model_lower)}
         IN IF hits = {} THEN 1
            ELSE THINKING_MULTIPLIERS[CHOOSE i \in hits : \A j \in hits : i <= j].multiplier

\* skills.py
TOKENS_PER_SKILL_METADATA == 50
SYSTEM_PROMPT_TOKENS == 2500

\* get_initial_context_estimate(model)['total_initial_tokens'], for
\* skill_count SKILL.md files found by estimate_skill_tokens
total_initial_tokens(skill_count) ==
    skill_count * TOKENS_PER_SKILL_METADATA + SYSTEM_PROMPT_TOKENS

----------------------------------------------------------------------------
(* adapters/cursor.py: the payloads the hooks build *)

\* CursorAdapter.get_model: input_data.get('model') or input_data.get('model_name')
get_model(input_data) ==
    IF input_data.model # <<>> THEN input_data.model ELSE input_data.model_name

\* validate_session_id taking an empty id for a session id
validate_session_id_any(input_data) == Some(input_data.conversation_id)

\* BaseAdapter.validate_session_id with CursorAdapter.get_session_id:
\* None when conversation_id is missing or empty
validate_session_id(input_data) ==
    IF input_data.conversation_id = "" THEN None
    ELSE Some(input_data.conversation_id)

\* the builder marking its payload as an actual count
build_context_estimate_payload_actual(input_data, estimated_tokens) ==
    IF validate_session_id(input_data) = None THEN None
    ELSE Some([event |-> "context_update",
               session_id |-> input_data.conversation_id,
               total_input_tokens |-> estimated_tokens,
               is_estimate |-> FALSE])

build_context_estimate_payload(input_data, estimated_tokens) ==
    IF validate_session_id(input_data) = None THEN None
    ELSE Some([event |-> "context_update",
               session_id |-> input_data.conversation_id,
               total_input_tokens |-> estimated_tokens,
               is_estimate |-> TRUE])

build_pre_compact_payload(input_data) ==
    IF validate_session_id(input_data) = None THEN None
    ELSE Some([event |-> "context_update",
               session_id |-> input_data.conversation_id,
               total_input_tokens |-> input_data.context_tokens])

build_session_start_payload(input_data) ==
    IF validate_session_id(input_data) = None THEN None
    ELSE Some([event |-> "session_start",
               session_id |-> input_data.conversation_id,
               model |-> get_model(input_data)])

build_session_end_payload(input_data) ==
    IF validate_session_id(input_data) = None THEN None
    ELSE Some([event |-> "session_end",
               session_id |-> input_data.conversation_id])

----------------------------------------------------------------------------
(* The hooks: each invocation is a process of its own, which imports the   *)
(* calibration module afresh, runs main() and exits.  They run one after   *)
(* the other here.                                                         *)

\* what the invocation's first _load_calibration returns
Fresh == load_calibration(None, FALSE, file)

HookDone(name, input_data, factor, total_tokens, payload) ==
    /\ started < MaxHooks
    /\ started' = started + 1
    /\ hook' = [name |-> name, input |-> input_data, factor |-> factor,
                total_tokens |-> total_tokens]
    /\ emitted' = payload
    /\ UNCHANGED <<cache, loaded, now, pc, call>>

\* the hook recording the count as it was before the factor was applied
AfterAgentResponse_records_raw(input_data) ==
    IF input_data.transcript = None
    THEN /\ HookDone("after_agent_response", input_data, None, None, None)
         /\ UNCHANGED file
    ELSE LET total_tokens ==
                 input_data.transcript[1]
                     * get_thinking_multiplier(get_model(input_data))
                 + total_initial_tokens(input_data.skill_count)
             session_id == input_data.conversation_id
         IN IF session_id # ""
            THEN LET factor == get_factor(Fresh, session_id)
                     calibrated_tokens == IntMul(total_tokens, factor)
                 IN /\ file' = Json(set_last_estimate(Fresh, session_id,
                                                      total_tokens, now))
                    /\ HookDone("after_agent_response", input_data,
                                Some(factor), Some(calibrated_tokens),
                                build_context_estimate_payload(
                                    input_data, calibrated_tokens))
            ELSE /\ HookDone("after_agent_response", input_data, None,
                             Some(total_tokens),
                             build_context_estimate_payload(
                                 input_data, total_tokens))
                 /\ UNCHANGED file

\* cursor/after-agent-response.py main(); transcript is None when the input
\* has no transcript_path or the file is missing, unreadable or empty, and
\* else the result of estimate_tokens(content)
AfterAgentResponse(input_data) ==
    IF input_data.transcript = None
    THEN /\ HookDone("after_agent_response", input_data, None, None, None)
         /\ UNCHANGED file
    ELSE LET transcript_tokens == input_data.transcript[1]
             model == get_model(input_data)
             adjusted_transcript_tokens ==
                 transcript_tokens * get_thinking_multiplier(model)
             skill_overhead == total_initial_tokens(input_data.skill_count)
             total_tokens == adjusted_transcript_tokens + skill_overhead
             session_id == input_data.conversation_id
         IN IF session_id # ""
            THEN LET factor == get_factor(Fresh, session_id)
                     calibrated_tokens == IntMul(total_tokens, factor)
                 IN /\ file' = Json(set_last_estimate(Fresh, session_id,
                                                      calibrated_tokens, now))
                    /\ HookDone("after_agent_response", input_data,
                                Some(factor), Some(calibrated_tokens),
                                build_context_estimate_payload(
                                    input_data, calibrated_tokens))
            ELSE /\ HookDone("after_agent_response", input_data, None,
                             Some(total_tokens),
                             build_context_estimate_payload(
                                 input_data, total_tokens))
                 /\ UNCHANGED file

\* calibrate_from_actual on the dict: the dict after the call
calibrated_data(data, session_id, actual_tokens, t) ==
    LET estimated == get_last_estimate(data, session_id)
    IN IF no_estimate(estimated) THEN data
       ELSE store_actual(
                set_factor(data, session_id,
                           calibrate_factor(actual_tokens, estimated[1]), t),
                session_id, actual_tokens, t)

\* the hook calibrating on any count reported, positive or not
PreCompact_any_count(input_data) ==
    LET session_id == input_data.conversation_id
        actual_tokens == input_data.context_tokens
        payload == build_pre_compact_payload(input_data)
        sent == IF payload = None THEN None
                ELSE Some([k \in DOMAIN payload[1] \cup {"is_estimate"} |->
                             IF k = "is_estimate" THEN FALSE ELSE payload[1][k]])
    IN IF session_id # ""
       THEN LET estimated == get_last_estimate(Fresh, session_id)
            IN /\ IF no_estimate(estimated)
                  THEN UNCHANGED file
                  ELSE file' = Json(calibrated_data(Fresh, session_id,
                                                    actual_tokens, now))
               /\ HookDone("pre_compact", input_data,
                           IF no_estimate(estimated) THEN None
                           ELSE Some(calibrate_factor(actual_tokens,
                                                      estimated[1])),
                           None, sent)
       ELSE /\ HookDone("pre_compact", input_data, None, None, sent)
            /\ UNCHANGED file

\* cursor/pre-compact.py main()
PreCompact(input_data) ==
    LET session_id == input_data.conversation_id
        actual_tokens == input_data.context_tokens
        payload == build_pre_compact_payload(input_data)
        sent == IF payload = None THEN None
                ELSE Some([k \in DOMAIN payload[1] \cup {"is_estimate"} |->
                             IF k = "is_estimate" THEN FALSE ELSE payload[1][k]])
    IN IF session_id # "" /\ actual_tokens > 0
       THEN LET estimated == get_last_estimate(Fresh, session_id)
            IN /\ IF no_estimate(estimated)
                  THEN UNCHANGED file
                  ELSE file' = Json(calibrated_data(Fresh, session_id,
                                                    actual_tokens, now))
               /\ HookDone("pre_compact", input_data,
                           IF no_estimate(estimated) THEN None
                           ELSE Some(calibrate_factor(actual_tokens,
                                                      estimated[1])),
                           None, sent)
       ELSE /\ HookDone("pre_compact", input_data, None, None, sent)
            /\ UNCHANGED file

\* cursor/session-end.py main() and claude-code/unregister-session.py main()
SessionEnd(input_data) ==
    /\ HookDone("session_end", input_data, None, None,
                build_session_end_payload(input_data))
    /\ UNCHANGED file

\* cursor/session-start.py main(): the session_start payload, then the initial
\* estimate (skills and system prompt); emitted holds the payloads handed to
\* send_event, in order.  The calibration store is not used.
SessionStart(input_data) ==
    LET payload == build_session_start_payload(input_data)
        total_tokens == total_initial_tokens(input_data.skill_count)
        context_payload == build_context_estimate_payload(input_data,
                                                          total_tokens)
    IN /\ started < MaxHooks
       /\ started' = started + 1
       /\ hook' = [name |-> "session_start", input |-> input_data,
                   factor |-> None, total_tokens |-> Some(total_tokens)]
       /\ emitted' = payload \o context_payload
       /\ UNCHANGED <<file, cache, loaded, now, pc, call>>

ConversationIds == SessionIds \cup {""}
ModelNames == {<<>>, <<"G", "P", "T", "-", "4", "o">>, <<"c", "l", "a", "u", "d", "e", "-", "4", ".", "5", "-", "s", "o", "n", "n", "e", "t", "-", "t", "h", "i", "n", "k", "i", "n", "g">>}

AfterAgentResponseInputs ==
    [conversation_id : ConversationIds,
     transcript : {None} \cup {Some(1000 * n) : n \in 0 .. MaxTurns},
     model : ModelNames,
     model_name : {<<>>},
     skill_count : 0 .. MaxSkills]

PreCompactInputs ==
    [conversation_id : ConversationIds,
     context_tokens : {3000 * n : n \in (-1) .. MaxContext}]

SessionEndInputs == [conversation_id : ConversationIds]

SessionStartInputs ==
    [conversation_id : ConversationIds,
     model : ModelNames,
     model_name : {<<>>},
     skill_count : 0 .. MaxSkills]

NextHooks ==
    \/ \E i \in AfterAgentResponseInputs : AfterAgentResponse(i)
    \/ \E i \in PreCompactInputs : PreCompact(i)
    \/ \E i \in SessionEndInputs : SessionEnd(i)
    \/ \E i \in SessionStartInputs : SessionStart(i)
    \/ Tick

SpecHooks == Init /\ [][NextHooks]_vars

----------------------------------------------------------------------------
(* The store on a calibration file of any JSON content.  json.load gives   *)
(* None, a number, a list or a dict; the functions of calibration.py then  *)
(* use what they got as a dict of dicts, and Python raises where the value *)
(* does not support the operation.                                         *)

JNull == [type |-> "null"]
JNumber(n) == [type |-> "number", value |-> n]
JList(items) == [type |-> "list", items |-> items]
JObject(members) == [type |-> "object", members |-> members]

\* a file holding the JSON text of value
Document(value) == [kind |-> "document", value |-> value]

\* bool(v)
Truthy(v) ==
    CASE v.type = "null" -> FALSE
      [] v.type = "number" -> v.value # 0
      [] v.type = "list" -> v.items # <<>>
      [] v.type = "object" -> DOMAIN v.members # {}

\* v.get(...) and v.values(): AttributeError unless v is a dict
HasGet(v) == v.type = "object"
\* `k in v`: TypeError on None and on a number
InRaises(v) == v.type \in {"null", "number"}
In(k, v) ==
    CASE v.type = "object" -> k \in DOMAIN v.members
      [] v.type = "list" -> \E i \in 1 .. Len(v.items) : v.items[i] = k
      [] OTHER -> FALSE
\* v[k] = x with a string k: TypeError unless v is a dict
SetItemRaises(v) == v.type # "object"
\* d.get(k) of a dict
DictGet(d, k, default) == Get(d.members, k, default)

\* the dict a typed record or store content is, and back
EncodeRecord(rec) == JObject([k \in DOMAIN rec |-> JNumber(rec[k])])
DecodeRecord(v) == [k \in DOMAIN v.members |-> v.members[k].value]
DecodeSessions(sessions) ==
    [s \in DOMAIN sessions.members |-> DecodeRecord(sessions.members[s])]

DefaultDocument ==
    JObject([sessions |-> JObject(EmptyDict), global_factor |-> JNumber(One)])

\* _load_calibration never reading the file
load_document_unread(f) == DefaultDocument

\* _load_calibration of a fresh process: _calibration_cache.update(data)
\* merges a dict, adds nothing from an empty list, and raises (caught, logged)
\* on None, a number or a list of scalars; the defaults stay
load_document(f) ==
    IF f.kind = "document" /\ f.value.type = "object"
    THEN JObject([k \in DOMAIN DefaultDocument.members \cup DOMAIN f.value.members |->
                     IF k \in DOMAIN f.value.members THEN f.value.members[k]
                     ELSE DefaultDocument.members[k]])
    ELSE DefaultDocument

\* how a call ends: with an exception, or returning ret and leaving data in
\* the cache, saved to the file or not
Raised == [raised |-> TRUE]
Returned(ret, data, saved) ==
    [raised |-> FALSE, ret |-> ret, data |-> data, saved |-> saved]

get_factor_on(data, session_id) ==
    LET sessions == DictGet(data, "sessions", JObject(EmptyDict))
    IN IF ~HasGet(sessions) THEN Raised
       ELSE LET session_data == DictGet(sessions, session_id, JNull)
            IN IF ~Truthy(session_data) THEN Returned(Some(One), data, FALSE)
               ELSE IF InRaises(session_data) THEN Raised
               ELSE IF ~In("factor", session_data)
                    THEN Returned(Some(One), data, FALSE)
               ELSE IF session_data.type # "object" THEN Raised
               ELSE Returned(Some(session_data.members["factor"].value),
                             data, FALSE)

\* data["sessions"][session_id] = {...}, then s.get(...) on every record
set_factor_on(data, session_id, factor, t) ==
    LET sessions == data.members["sessions"]
    IN IF SetItemRaises(sessions) THEN Raised
       ELSE LET written == JObject(Put(sessions.members, session_id,
                                       EncodeRecord([factor |-> clamp(factor),
                                                     updated_at |-> t])))
            IN IF \E s \in DOMAIN written.members : ~HasGet(written.members[s])
               THEN Raised
               ELSE LET typed == set_factor(
                                    [sessions |-> DecodeSessions(written),
                                     global_factor |-> data.members["global_factor"].value],
                                    session_id, factor, t)
                    IN Returned(None,
                                JObject([data.members EXCEPT
                                    !["sessions"] = written,
                                    !["global_factor"] = JNumber(typed.global_factor)]),
                                TRUE)

get_last_estimate_on(data, session_id) ==
    LET sessions == DictGet(data, "sessions", JObject(EmptyDict))
    IN IF ~HasGet(sessions) THEN Raised
       ELSE LET session_data == DictGet(sessions, session_id, JNull)
            IN IF ~Truthy(session_data) THEN Returned(None, data, FALSE)
               ELSE IF ~HasGet(session_data) THEN Raised
               ELSE Returned(IF "last_estimate" \in DOMAIN session_data.members
                             THEN Some(session_data.members["last_estimate"].value)
                             ELSE None,
                             data, FALSE)

\* `session_id not in data["sessions"]`, data["sessions"][session_id] = {},
\* data["sessions"][session_id]["last_estimate"] = tokens
set_last_estimate_on(data, session_id, tokens, t) ==
    LET sessions == data.members["sessions"]
    IN IF InRaises(sessions) \/ SetItemRaises(sessions) THEN Raised
       ELSE LET session_data == DictGet(sessions, session_id, JObject(EmptyDict))
            IN IF SetItemRaises(session_data) THEN Raised
               ELSE Returned(None,
                        JObject([data.members EXCEPT !["sessions"] =
                            JObject(Put(sessions.members, session_id,
                                JObject(Put(Put(session_data.members,
                                                "last_estimate", JNumber(tokens)),
                                            "estimate_time", JNumber(t)))))]),
                        TRUE)

calibrate_from_actual_on(data, session_id, actual_tokens, t) ==
    LET estimated == get_last_estimate_on(data, session_id)
    IN IF estimated.raised THEN Raised
       ELSE IF no_estimate(estimated.ret) THEN Returned(None, data, FALSE)
       ELSE LET factor == calibrate_factor(actual_tokens, estimated.ret[1])
                stored == set_factor_on(data, session_id, factor, t)
            IN IF stored.raised THEN Raised
               ELSE Returned(Some(factor),
                        JObject([stored.data.members EXCEPT
                            !["sessions"] =
                                JObject([@.members EXCEPT ![session_id] =
                                    JObject(Put(Put(@.members,
                                                    "last_actual", JNumber(actual_tokens)),
                                                "calibrated_at", JNumber(t)))])]),
                        TRUE)

\* `session_id in data.get("sessions", {})`, del data["sessions"][session_id]
clear_session_on(data, session_id) ==
    LET sessions == DictGet(data, "sessions", JObject(EmptyDict))
    IN IF InRaises(sessions) THEN Raised
       ELSE IF ~In(session_id, sessions) THEN Returned(None, data, FALSE)
       ELSE IF sessions.type # "object" THEN Raised
       ELSE Returned(None,
                     JObject([data.members EXCEPT !["sessions"] =
                                 JObject(Del(sessions.members, session_id))]),
                     TRUE)

\* len(sessions), sessions.values(), `"factor" in s` for every record
get_calibration_stats_on(data) ==
    LET sessions == DictGet(data, "sessions", JObject(EmptyDict))
    IN IF ~HasGet(sessions) THEN Raised
       ELSE IF \E s \in DOMAIN sessions.members : InRaises(sessions.members[s])
       THEN Raised
       ELSE Returned(
                Some([session_count |-> Cardinality(DOMAIN sessions.members),
                      global_factor |-> DictGet(data, "global_factor", JNumber(One)).value,
                      calibrated_sessions |->
                          Cardinality({s \in DOMAIN sessions.members :
                                          In("factor", sessions.members[s])})]),
                data, FALSE)

StoreOperations ==
    {"get_factor", "set_factor", "get_last_estimate", "set_last_estimate",
     "calibrate_from_actual", "clear_session", "get_calibration_stats"}

\* the public function name, called by a fresh process that finds file f
Outcome(name, f, session_id, arg, t) ==
    LET data == load_document(f)
    IN CASE name = "get_factor" -> get_factor_on(data, session_id)
         [] name = "set_factor" -> set_factor_on(data, session_id, arg, t)
         [] name = "get_last_estimate" -> get_last_estimate_on(data, session_id)
         [] name = "set_last_estimate" -> set_last_estimate_on(data, session_id, arg, t)
         [] name = "calibrate_from_actual" ->
                calibrate_from_actual_on(data, session_id, arg, t)
         [] name = "clear_session" -> clear_session_on(data, session_id)
         [] name = "get_calibration_stats" -> get_calibration_stats_on(data)

\* one process: it imports the module, calls one public function and exits
CallOnFile(name, session_id, arg) ==
    LET outcome == Outcome(name, file, session_id, arg, now)
    IN /\ call' = [call EXCEPT ![Main] =
                      [name |-> name, session_id |-> session_id, arg |-> arg,
                       found |-> file, outcome |-> outcome]]
       /\ file' = IF ~outcome.raised /\ outcome.saved
                  THEN Document(outcome.data) ELSE file
       /\ UNCHANGED <<cache, loaded, now, pc, started, hook, emitted>>

\* the record of a session in a file some writer made
EntryShapes ==
    {JNull, JNumber(0), JNumber(5), JList(<<>>), JList(<<"factor">>),
     JObject(EmptyDict),
     EncodeRecord([last_estimate |-> MaxEstimate, estimate_time |-> StartTime])}

\* the value of "sessions"
SessionsShapes ==
    {JNull, JNumber(5), JList(<<>>)}
    \cup {JObject(EmptyDict)}
    \cup {JObject([s \in {"s1"} |-> e]) : e \in EntryShapes}

\* the JSON values the file can hold
DocumentShapes ==
    {JNull, JNumber(5), JList(<<>>), JList(<<1, 2>>), JObject(EmptyDict)}
    \cup {JObject([k \in {"sessions"} |-> s]) : s \in SessionsShapes}

FileContents == {Missing, Empty, Corrupt} \cup {Document(v) : v \in DocumentShapes}

InitFiles ==
    /\ file \in FileContents
    /\ cache = [p \in Procs |-> None]
    /\ loaded = [p \in Procs |-> FALSE]
    /\ now = StartTime
    /\ pc = [p \in Procs |-> "idle"]
    /\ call = [p \in Procs |-> NoCall]
    /\ started = 0
    /\ hook = NoHook
    /\ emitted = None

\* the factors submitted: one inside the range and one above 2.0
FileFactors == {Half, Frac(MaxActual, 1)}
FileEstimates == {0, MaxEstimate}

NextFiles ==
    \/ \E s \in SessionIds : CallOnFile("get_factor", s, None)
    \/ \E s \in SessionIds, f \in FileFactors : CallOnFile("set_factor", s, f)
    \/ \E s \in SessionIds : CallOnFile("get_last_estimate", s, None)
    \/ \E s \in SessionIds, n \in FileEstimates :
           CallOnFile("set_last_estimate", s, n)
    \/ \E s \in SessionIds, a \in ConcActuals :
           CallOnFile("calibrate_from_actual", s, a)
    \/ \E s \in SessionIds : CallOnFile("clear_session", s, None)
    \/ CallOnFile("get_calibration_stats", "", None)

SpecFiles == InitFiles /\ [][NextFiles]_vars

----------------------------------------------------------------------------
(* _save_calibration failing: the exception is caught and logged, False is *)
(* returned and ignored by every caller.                                   *)

\* where _save_calibration raises: in mkdir (line 58), in open (line 59), or
\* in json.dump (line 60), after open(path, 'w') has truncated the file
SavePoints == {"mkdir", "open", "dump"}

\* the files a failed save can leave: the one that was there, or, when
\* json.dump fails, an empty file or the part written so far
failed_save(f, at) == IF at = "dump" THEN {Empty, Corrupt} ELSE {f}

\* a call of invocation p all of whose saves fail at the point `at`
FinishUnsaved(p, data, c, at) ==
    /\ started < MaxCalls
    /\ started' = started + 1
    /\ cache' = [cache EXCEPT ![p] = Some(data)]
    /\ loaded' = [loaded EXCEPT ![p] = TRUE]
    /\ call' = [call EXCEPT ![p] =
                   [k \in DOMAIN c \cup {"save_failed", "seq"} |->
                       IF k = "save_failed" THEN at
                       ELSE IF k = "seq" THEN started + 1
                       ELSE c[k]]]
    /\ file' \in failed_save(file, at)
    /\ UNCHANGED <<now, pc, hook, emitted>>

SetFactorSaveFails(p, session_id, factor, at) ==
    LET data == set_factor(Data(p), session_id, factor, now)
    IN FinishUnsaved(p, data, CallOf(p, "set_factor", session_id, Some(factor),
                                     None, None, 1), at)

SetLastEstimateSaveFails(p, session_id, tokens, at) ==
    LET data == set_last_estimate(Data(p), session_id, tokens, now)
    IN FinishUnsaved(p, data, CallOf(p, "set_last_estimate", session_id,
                                     Some(tokens), None, None, 1), at)

CalibrateFromActualSaveFails(p, session_id, actual_tokens, at) ==
    LET data == Data(p)
        estimated == get_last_estimate(data, session_id)
    IN /\ ~no_estimate(estimated)
       /\ LET factor == calibrate_factor(actual_tokens, estimated[1])
          IN FinishUnsaved(p, calibrated_data(data, session_id, actual_tokens, now),
                           CallOf(p, "calibrate_from_actual", session_id,
                                  Some(actual_tokens), estimated, Some(factor), 2),
                           at)

ClearSessionSaveFails(p, session_id, at) ==
    LET data == Data(p)
    IN /\ session_id \in DOMAIN data.sessions
       /\ FinishUnsaved(p, clear_session(data, session_id),
                        CallOf(p, "clear_session", session_id, None, None, None, 1),
                        at)

\* cursor/after-agent-response.py main() when the save of set_last_estimate
\* fails
AfterAgentResponseSaveFails(input_data, at) ==
    /\ input_data.transcript # None
    /\ input_data.conversation_id # ""
    /\ started < MaxCalls
    /\ LET total_tokens ==
               input_data.transcript[1]
                   * get_thinking_multiplier(get_model(input_data))
               + total_initial_tokens(input_data.skill_count)
           factor == get_factor(Fresh, input_data.conversation_id)
           calibrated_tokens == IntMul(total_tokens, factor)
       IN /\ hook' = [name |-> "after_agent_response", input |-> input_data,
                      factor |-> Some(factor),
                      total_tokens |-> Some(calibrated_tokens),
                      save_failed |-> at, seq |-> started + 1]
          /\ emitted' = build_context_estimate_payload(input_data,
                                                       calibrated_tokens)
    /\ started' = started + 1
    /\ file' \in failed_save(file, at)
    /\ UNCHANGED <<cache, loaded, now, pc, call>>

SaveFailsInputs ==
    [conversation_id : SessionIds,
     transcript : {Some(1000 * MaxTurns)},
     model : {<<>>},
     model_name : {<<>>},
     skill_count : {0}]

NextSaveFails ==
    \/ \E s \in SessionIds, f \in ConcFactors : SetFactor(Main, s, f)
    \/ \E s \in SessionIds, n \in ConcEstimates : SetLastEstimate(Main, s, n)
    \/ NewInvocation(Main)
    \/ \E s \in SessionIds, f \in ConcFactors, at \in SavePoints :
           SetFactorSaveFails(Main, s, f, at)
    \/ \E s \in SessionIds, n \in ConcEstimates, at \in SavePoints :
           SetLastEstimateSaveFails(Main, s, n, at)
    \/ \E s \in SessionIds, a \in ConcActuals, at \in SavePoints :
           CalibrateFromActualSaveFails(Main, s, a, at)
    \/ \E s \in SessionIds, at \in SavePoints : ClearSessionSaveFails(Main, s, at)
    \/ \E i \in SaveFailsInputs, at \in SavePoints :
           AfterAgentResponseSaveFails(i, at)

SpecSaveFails == Init /\ [][NextSaveFails]_vars

----------------------------------------------------------------------------
(* set_factor over the days: three sessions, so that a fresh record, an old *)
(* one and one holding only an estimate can be in the store together       *)

AverageIds == SessionIds \cup {"s3"}

NextAverage ==
    \/ \E s \in AverageIds, f \in FileFactors : SetFactor(Main, s, f)
    \/ \E s \in AverageIds, n \in ConcEstimates : SetLastEstimate(Main, s, n)
    \/ Tick

SpecAverage == Init /\ [][NextAverage]_vars

----------------------------------------------------------------------------
(* context_parser.py: parse_context_output.  The text of a report is the    *)
(* sequence of its lines; a line is the marker phrase, a header, a category *)
(* line, a section title, an item or anything else, with its fields as the  *)
(* characters written.  Numbers are sequences of characters, so that the    *)
(* regular expressions and float() are applied to what the text holds.      *)


DigitValue(c) ==
    CASE c = "0" -> 0 [] c = "1" -> 1 [] c = "2" -> 2 [] c = "3" -> 3
      [] c = "4" -> 4 [] c = "5" -> 5 [] c = "6" -> 6 [] c = "7" -> 7
      [] c = "8" -> 8 [] c = "9" -> 9
IsDigit(c) == c \in {"0", "1", "2", "3", "4", "5", "6", "7", "8", "9"}

\* [\d.]+
RegexNumber(s) ==
    s # <<>> /\ \A i \in 1 .. Len(s) : IsDigit(s[i]) \/ s[i] = "."
\* \d+
RegexDigits(s) == s # <<>> /\ \A i \in 1 .. Len(s) : IsDigit(s[i])
\* \d+(?:\.\d+)?
RegexDecimal(s) ==
    \/ RegexDigits(s)
    \/ \E i \in 2 .. (Len(s) - 1) :
           /\ s[i] = "."
           /\ RegexDigits(SubSeq(s, 1, i - 1))
           /\ RegexDigits(SubSeq(s, i + 1, Len(s)))

DotsOf(s) == {i \in 1 .. Len(s) : s[i] = "."}
\* float(s) on a match of [\d.]+ raises ValueError unless s is digits with at
\* most one point
FloatRaises(s) ==
    Cardinality(DotsOf(s)) > 1 \/ \A i \in 1 .. Len(s) : ~IsDigit(s[i])

RECURSIVE DecimalValue(_)
DecimalValue(s) ==
    IF s = <<>> THEN 0
    ELSE IF s[Len(s)] = "." THEN DecimalValue(SubSeq(s, 1, Len(s) - 1))
    ELSE 10 * DecimalValue(SubSeq(s, 1, Len(s) - 1)) + DigitValue(s[Len(s)])

RECURSIVE Pow10(_)
Pow10(n) == IF n = 0 THEN 1 ELSE 10 * Pow10(n - 1)

\* float(s), for s with ~FloatRaises(s)
Float(s) ==
    LET dot == DotsOf(s)
        decimals == IF dot = {} THEN 0 ELSE Len(s) - (CHOOSE i \in dot : TRUE)
    IN Frac(DecimalValue(s), Pow10(decimals))

\* int(float)
Truncated(f) == f[1] \div f[2]

MarkerLine == [kind |-> "marker"]
OtherLine == [kind |-> "other"]
HeaderLine(model, total, total_k, max, max_k, percent) ==
    [kind |-> "header", model |-> model, total |-> total, total_k |-> total_k,
     max |-> max, max_k |-> max_k, percent |-> percent]
CategoryLine(name, value, k, tokens_word, percent) ==
    [kind |-> "category", name |-> name, value |-> value, k |-> k,
     tokens_word |-> tokens_word, percent |-> percent]
SectionLine(name) == [kind |-> "section", name |-> name]
ItemLine(name, tokens) == [kind |-> "item", name |-> name, tokens |-> tokens]

\* the header pattern, lines 77-80: the k after each number is optional and
\* not captured
HeaderMatches(line) ==
    /\ line.kind = "header"
    /\ RegexNumber(line.total)
    /\ RegexNumber(line.max)
    /\ RegexDecimal(line.percent)

\* the category pattern, lines 92-94: the word "tokens" is required
CategoryMatches(line) ==
    /\ line.kind = "category"
    /\ RegexNumber(line.value)
    /\ line.tokens_word
    /\ RegexNumber(line.percent)

\* the item pattern, line 131: the name is [\w_-]+ up to the colon, the
\* count is \d+
ItemMatches(line) ==
    LET word == {"a", "b", "c", "d", "e", "f", "g", "h", "i", "j", "k", "l",
                 "m", "n", "o", "p", "q", "r", "s", "t", "u", "v", "w", "x",
                 "y", "z", "_", "-"} \cup DOMAIN UpperCase
    IN /\ line.kind = "item"
       /\ line.name # <<>>
       /\ \A i \in 1 .. Len(line.name) :
              line.name[i] \in word \/ IsDigit(line.name[i])
       /\ RegexDigits(line.tokens)

CategoryFields ==
    {"system_prompt", "system_tools", "mcp_tools", "custom_agents",
     "memory_files", "skills", "messages", "free_space", "autocompact_buffer"}

\* lines 110-127: the texts looked for in a lower-cased category name, in
\* the order of the if/elif chain, each with the field it selects
CATEGORY_NAMES ==
    << [name |-> <<"s", "y", "s", "t", "e", "m", " ", "p", "r", "o", "m", "p", "t">>,
        field |-> "system_prompt"],
       [name |-> <<"s", "y", "s", "t", "e", "m", " ", "t", "o", "o", "l", "s">>,
        field |-> "system_tools"],
       [name |-> <<"m", "c", "p", " ", "t", "o", "o", "l", "s">>,
        field |-> "mcp_tools"],
       [name |-> <<"a", "g", "e", "n", "t", "s">>,
        field |-> "custom_agents"],
       [name |-> <<"m", "e", "m", "o", "r", "y">>,
        field |-> "memory_files"],
       [name |-> <<"s", "k", "i", "l", "l", "s">>,
        field |-> "skills"],
       [name |-> <<"m", "e", "s", "s", "a", "g", "e", "s">>,
        field |-> "messages"],
       [name |-> <<"f", "r", "e", "e">>,
        field |-> "free_space"],
       [name |-> <<"a", "u", "t", "o", "c", "o", "m", "p", "a", "c", "t">>,
        field |-> "autocompact_buffer"],
       [name |-> <<"b", "u", "f", "f", "e", "r">>,
        field |-> "autocompact_buffer"] >>

\* lines 110-127: the field a category name goes to, "" when to none
category_field(name) ==
    LET lower == Lower(name)
        found == {i \in DOMAIN CATEGORY_NAMES :
                     Contains(CATEGORY_NAMES[i].name, lower)}
    IN IF found = {} THEN ""
       ELSE CATEGORY_NAMES[CHOOSE i \in found : \A j \in found : i <= j].field

\* lines 134-139: the sections with items, in the order of the dict
Sections ==
    << [name |-> <<"M", "C", "P", " ", "t", "o", "o", "l", "s">>,
        field |-> "mcp_tools"],
       [name |-> <<"C", "u", "s", "t", "o", "m", " ", "a", "g", "e", "n", "t", "s">>,
        field |-> "custom_agents"],
       [name |-> <<"M", "e", "m", "o", "r", "y", " ", "f", "i", "l", "e", "s">>,
        field |-> "memory_files"],
       [name |-> <<"S", "k", "i", "l", "l", "s">>,
        field |-> "skills"] >>

EmptyBreakdown ==
    [model |-> <<>>, total_tokens |-> 0, max_tokens |-> 0,
     used_percentage |-> Frac(0, 1),
     categories |-> [f \in CategoryFields |-> None]]

\* lines 81-88: both branches of the conditional multiply by 1000
with_header(breakdown, line) ==
    [breakdown EXCEPT
        !.model = line.model,
        !.total_tokens = IntMul(1000, Float(line.total)),
        !.max_tokens = IntMul(1000, Float(line.max)),
        !.used_percentage = Float(line.percent)]

category_of_scaled(line) ==
    [name |-> line.name,
     tokens |-> IntMul(1000, Float(line.value)),
     percentage |-> Float(line.percent),
     items |-> <<>>]

\* lines 96-107
category_of(line) ==
    LET token_value == Float(line.value)
    IN [name |-> line.name,
        tokens |-> IF line.k
                   THEN IntMul(1000, token_value)
                   ELSE Truncated(token_value),
        percentage |-> Float(line.percent),
        items |-> <<>>]

\* lines 96-127 for the category lines of output[i..], in order
RECURSIVE with_categories(_, _, _)
with_categories(categories, output, i) ==
    IF i > Len(output) THEN categories
    ELSE IF CategoryMatches(output[i]) /\ category_field(output[i].name) # ""
         THEN with_categories(
                  [categories EXCEPT ![category_field(output[i].name)] =
                       Some(category_of(output[i]))],
                  output, i + 1)
         ELSE with_categories(categories, output, i + 1)

\* the line holds the text name (str.find is case-sensitive)
LineHolds(line, name) ==
    \/ line.kind = "section" /\ Contains(name, line.name)
    \/ line.kind = "category" /\ Contains(name, line.name)

Positions(output, name) == {i \in 1 .. Len(output) : LineHolds(output[i], name)}
Titles(output, name) ==
    {i \in 1 .. Len(output) : output[i].kind = "section" /\ Contains(name, output[i].name)}
Min(S) == CHOOSE x \in S : \A y \in S : x <= y

\* the span of a section running to the end of the output
section_lines_to_end(output, k) ==
    LET section_name == Sections[k].name
        titled == Titles(output, section_name)
        held == Positions(output, section_name)
    IN IF held = {} THEN <<>>
       ELSE LET section_start == IF titled # {} THEN Min(titled) ELSE Min(held)
            IN <<section_start, Len(output)>>

\* lines 146-160: first and last line of the section's text, <<>> when the
\* section name is not in the output
section_lines(output, k) ==
    LET section_name == Sections[k].name
        titled == Titles(output, section_name)
        held == Positions(output, section_name)
    IN IF held = {} THEN <<>>
       ELSE LET section_start == IF titled # {} THEN Min(titled) ELSE Min(held)
                others == UNION {{i \in Positions(output, Sections[j].name) :
                                     i > section_start} :
                                 j \in (1 .. Len(Sections)) \ {k}}
                next_section == IF others = {} THEN Len(output) + 1
                                ELSE Min(others)
            IN <<section_start, next_section - 1>>

\* lines 163-168: the items of output[i..last]
RECURSIVE items_of(_, _, _)
items_of(output, i, last) ==
    IF i > last THEN <<>>
    ELSE IF ItemMatches(output[i])
         THEN <<[name |-> output[i].name, tokens |-> DecimalValue(output[i].tokens)]>>
              \o items_of(output, i + 1, last)
         ELSE items_of(output, i + 1, last)

\* lines 141-168
with_items(categories, output) ==
    [f \in CategoryFields |->
        IF categories[f] = None
           \/ ~\E k \in 1 .. Len(Sections) : Sections[k].field = f
        THEN categories[f]
        ELSE LET k == CHOOSE j \in 1 .. Len(Sections) : Sections[j].field = f
                 bounds == section_lines(output, k)
             IN IF bounds = <<>> THEN categories[f]
                ELSE Some([categories[f][1] EXCEPT
                              !.items = items_of(output, bounds[1], bounds[2])])]

\* float() of lines 86-88, 98 and 101 raising ValueError
parse_raises(output) ==
    \/ \E i \in 1 .. Len(output) :
           /\ HeaderMatches(output[i])
           /\ \A j \in 1 .. (i - 1) : ~HeaderMatches(output[j])
           /\ FloatRaises(output[i].total) \/ FloatRaises(output[i].max)
    \/ \E i \in 1 .. Len(output) :
           /\ CategoryMatches(output[i])
           /\ FloatRaises(output[i].value) \/ FloatRaises(output[i].percent)

\* parse_context_output: raised, or the value returned (None or a breakdown)
parse_context_output(output) ==
    IF ~\E i \in 1 .. Len(output) : output[i] = MarkerLine
    THEN [raised |-> FALSE, ret |-> None]
    ELSE IF parse_raises(output) THEN Raised
    ELSE LET headers == {i \in 1 .. Len(output) : HeaderMatches(output[i])}
             breakdown == IF headers = {} THEN EmptyBreakdown
                          ELSE with_header(EmptyBreakdown, output[Min(headers)])
             categories == with_categories(breakdown.categories, output, 1)
         IN [raised |-> FALSE,
             ret |-> Some([breakdown EXCEPT
                              !.categories = with_items(categories, output)])]

\* the texts written in the lines of a report: names and numbers as in
\* sample_output, a label of no category, and texts [\d.]+ matches that
\* float() does not accept
SAMPLE ==
    [ model |-> <<"c", "l", "a", "u", "d", "e", "-", "s", "o", "n", "n", "e", "t", "-", "4", "-", "5">>,
      messages |-> <<"M", "e", "s", "s", "a", "g", "e", "s">>,
      free_space |-> <<"F", "r", "e", "e", " ", "s", "p", "a", "c", "e">>,
      item |-> <<"f", "r", "o", "n", "t", "e", "n", "d", "-", "d", "e", "s", "i", "g", "n">>,
      file |-> <<"C", "L", "A", "U", "D", "E", ".", "m", "d">>,
      tool |-> <<"m", "c", "p", "_", "_", "d", "e", "e", "p", "w", "i", "k", "i", "_", "_", "r", "e",
                 "a", "d", "_", "w", "i", "k", "i", "_", "s", "t", "r", "u", "c", "t", "u", "r", "e">>,
      label |-> <<"C", "a", "c", "h", "e">>,
      n843 |-> <<"8", "4", "3">>,
      n0_4 |-> <<"0", ".", "4">>,
      n118 |-> <<"1", "1", "8">>,
      n58_9 |-> <<"5", "8", ".", "9">>,
      n48 |-> <<"4", "8">>,
      n200 |-> <<"2", "0", "0">>,
      n24 |-> <<"2", "4">>,
      n2_5 |-> <<"2", ".", "5">>,
      n1_2_3 |-> <<"1", ".", "2", ".", "3">>,
      dots |-> <<".", ".", ".">>,
      word |-> <<"x">> ]

\* the lines a report is made of here

ReportLines ==
    {MarkerLine, OtherLine,
     HeaderLine(SAMPLE.model, SAMPLE.n48, TRUE, SAMPLE.n200, TRUE, SAMPLE.n24),
     HeaderLine(SAMPLE.model, SAMPLE.n48, FALSE, SAMPLE.n200, TRUE, SAMPLE.n2_5),
     HeaderLine(SAMPLE.model, SAMPLE.n1_2_3, TRUE, SAMPLE.n200, TRUE, SAMPLE.n24),
     HeaderLine(SAMPLE.model, SAMPLE.word, TRUE, SAMPLE.n200, TRUE, SAMPLE.n24),
     CategoryLine(Sections[4].name, SAMPLE.n2_5, TRUE, TRUE, SAMPLE.n2_5),
     CategoryLine(SAMPLE.messages, SAMPLE.n48, FALSE, TRUE, SAMPLE.n24),
     CategoryLine(SAMPLE.messages, SAMPLE.dots, TRUE, TRUE, SAMPLE.n24),
     CategoryLine(SAMPLE.free_space, SAMPLE.n118, TRUE, FALSE, SAMPLE.n58_9),
     CategoryLine(Sections[3].name, SAMPLE.n843, FALSE, TRUE, SAMPLE.n0_4),
     CategoryLine(SAMPLE.label, SAMPLE.n48, TRUE, TRUE, SAMPLE.n24),
     CategoryLine(SAMPLE.label, SAMPLE.dots, TRUE, TRUE, SAMPLE.n24),
     SectionLine(Sections[4].name),
     ItemLine(SAMPLE.item, SAMPLE.n48),
     ItemLine(SAMPLE.item, SAMPLE.n2_5)}

Reports == UNION {[1 .. n -> ReportLines] : n \in 0 .. MaxLines}

\* a call of parse_context_output(output) that has not run yet
Pending == [raised |-> FALSE, pending |-> TRUE]

InitParser ==
    /\ file = Missing
    /\ cache = [p \in Procs |-> None]
    /\ loaded = [p \in Procs |-> FALSE]
    /\ now = StartTime
    /\ pc = [p \in Procs |-> "idle"]
    /\ \E output \in Reports :
           call = [p \in Procs |->
                      IF p = Main
                      THEN [name |-> "parse_context_output", arg |-> output,
                            outcome |-> Pending]
                      ELSE NoCall]
    /\ started = 0
    /\ hook = NoHook
    /\ emitted = None

ParseContextOutput ==
    /\ call[Main].outcome = Pending
    /\ call' = [call EXCEPT ![Main].outcome = parse_context_output(call[Main].arg)]
    /\ UNCHANGED <<file, cache, loaded, now, pc, started, hook, emitted>>

NextParser == ParseContextOutput

SpecParser == InitParser /\ [][NextParser]_vars

\* reports of sections: the marker, then category lines, section titles and
\* items with the names of sample_output (a skill, a memory file, an MCP tool)
SectionLines ==
    {CategoryLine(Sections[4].name, SAMPLE.n2_5, TRUE, TRUE, SAMPLE.n2_5),
     CategoryLine(Sections[3].name, SAMPLE.n843, FALSE, TRUE, SAMPLE.n0_4),
     SectionLine(Sections[4].name),
     SectionLine(Sections[3].name),
     ItemLine(SAMPLE.item, SAMPLE.n48),
     ItemLine(SAMPLE.file, SAMPLE.n843),
     ItemLine(SAMPLE.tool, SAMPLE.n118)}

InitSections ==
    /\ file = Missing
    /\ cache = [p \in Procs |-> None]
    /\ loaded = [p \in Procs |-> FALSE]
    /\ now = StartTime
    /\ pc = [p \in Procs |-> "idle"]
    /\ \E n \in 0 .. MaxItemLines : \E body \in [1 .. n -> SectionLines] :
           call = [p \in Procs |->
                      IF p = Main
                      THEN [name |-> "parse_context_output",
                            arg |-> <<MarkerLine>> \o body,
                            outcome |-> Pending]
                      ELSE NoCall]
    /\ started = 0
    /\ hook = NoHook
    /\ emitted = None

SpecSections == InitSections /\ [][NextParser]_vars

----------------------------------------------------------------------------
(* tokenizer.py: estimate_tokens, get_context_window and the percentages, *)
(* and get_initial_context_estimate of skills.py.  A text is the sequence *)
(* of its characters, None and "" being <<>>; a percentage is an exact    *)
(* fraction.                                                              *)

\* estimate_tokens counting one token for each character
estimate_tokens_chars(text, encoded) ==
    IF text = <<>> THEN 0
    ELSE IF encoded # None THEN encoded[1]
    ELSE Len(text)

\* estimate_tokens(text); encoded is None when tiktoken is not installed and
\* holds len(encoder.encode(text)) when it is
estimate_tokens(text, encoded) ==
    IF text = <<>> THEN 0
    ELSE IF encoded # None THEN encoded[1]
    ELSE Len(text) \div 4

\* MODEL_CONTEXT_WINDOWS, in the order of the dict
MODEL_CONTEXT_WINDOWS ==
    << [key |-> <<"c", "l", "a", "u", "d", "e", "-", "4", ".", "5", "-",
                  "o", "p", "u", "s">>,
        window |-> 176000],
       [key |-> <<"c", "l", "a", "u", "d", "e", "-", "4", ".", "5", "-",
                  "s", "o", "n", "n", "e", "t">>,
        window |-> 176000],
       [key |-> <<"c", "l", "a", "u", "d", "e", "-", "4", "-", "o", "p",
                  "u", "s">>,
        window |-> 176000],
       [key |-> <<"c", "l", "a", "u", "d", "e", "-", "4", "-", "s", "o",
                  "n", "n", "e", "t">>,
        window |-> 176000],
       [key |-> <<"c", "l", "a", "u", "d", "e", "-", "3", ".", "5", "-",
                  "s", "o", "n", "n", "e", "t">>,
        window |-> 176000],
       [key |-> <<"c", "l", "a", "u", "d", "e", "-", "3", "-", "o", "p",
                  "u", "s">>,
        window |-> 176000],
       [key |-> <<"c", "l", "a", "u", "d", "e", "-", "3", "-", "s", "o",
                  "n", "n", "e", "t">>,
        window |-> 176000],
       [key |-> <<"c", "l", "a", "u", "d", "e", "-", "3", "-", "h", "a",
                  "i", "k", "u">>,
        window |-> 176000],
       [key |-> <<"g", "p", "t", "-", "4", "o">>,
        window |-> 128000],
       [key |-> <<"g", "p", "t", "-", "4", "-", "t", "u", "r", "b", "o">>,
        window |-> 128000],
       [key |-> <<"g", "p", "t", "-", "4">>,
        window |-> 8192],
       [key |-> <<"g", "p", "t", "-", "3", ".", "5", "-", "t", "u", "r",
                  "b", "o">>,
        window |-> 16385],
       [key |-> <<"g", "e", "m", "i", "n", "i", "-", "2", ".", "5", "-",
                  "p", "r", "o">>,
        window |-> 1000000],
       [key |-> <<"g", "e", "m", "i", "n", "i", "-", "2", ".", "5", "-",
                  "f", "l", "a", "s", "h">>,
        window |-> 1000000],
       [key |-> <<"g", "e", "m", "i", "n", "i", "-", "1", ".", "5", "-",
                  "p", "r", "o">>,
        window |-> 2000000],
       [key |-> <<"g", "e", "m", "i", "n", "i", "-", "1", ".", "5", "-",
                  "f", "l", "a", "s", "h">>,
        window |-> 1000000],
       [key |-> <<"d", "e", "f", "a", "u", "l", "t">>,
        window |-> 176000] >>

\* get_context_window answering the default unless the name is a key
get_context_window_exact(model) ==
    LET keys == {i \in 1 .. Len(MODEL_CONTEXT_WINDOWS) :
                    MODEL_CONTEXT_WINDOWS[i].key = Lower(model)}
    IN IF keys = {} THEN MODEL_CONTEXT_WINDOWS[Len(MODEL_CONTEXT_WINDOWS)].window
       ELSE MODEL_CONTEXT_WINDOWS[CHOOSE i \in keys : TRUE].window

get_context_window(model) ==
    LET entries == 1 .. Len(MODEL_CONTEXT_WINDOWS)
        default == CHOOSE i \in entries :
                       MODEL_CONTEXT_WINDOWS[i].key = <<"d", "e", "f", "a", "u", "l", "t">>
        model_lower == Lower(model)
        exact == {i \in entries : MODEL_CONTEXT_WINDOWS[i].key = model_lower}
        partial == {i \in entries \ {default} :
                       Contains(MODEL_CONTEXT_WINDOWS[i].key, model_lower)}
    IN IF model = <<>> THEN MODEL_CONTEXT_WINDOWS[default].window
       ELSE IF exact # {} THEN MODEL_CONTEXT_WINDOWS[CHOOSE i \in exact : TRUE].window
       ELSE IF partial # {}
            THEN MODEL_CONTEXT_WINDOWS[CHOOSE i \in partial :
                                           \A j \in partial : i <= j].window
       ELSE MODEL_CONTEXT_WINDOWS[default].window

\* calculate_context_percentage without the cap at 100
calculate_context_percentage_uncapped(tokens, context_window) ==
    IF context_window <= 0 THEN Frac(0, 1)
    ELSE Frac(100 * tokens, context_window)

\* (tokens >= 0)
calculate_context_percentage(tokens, context_window) ==
    IF context_window <= 0 THEN Frac(0, 1)
    ELSE FMin(Frac(100 * tokens, context_window), Frac(100, 1))

\* rounding that always goes one tenth beyond the tenths of x
round1_beyond(x, up) == Frac((10 * x[1]) \div x[2] + 1, 10)

\* round(x, 1), x >= 0.  A value halfway between two tenths is a double on
\* either side of the half (or on it, and then rounded to even): up says
\* which way it goes
round1(x, up) ==
    LET tenths == (10 * x[1]) \div x[2]
        rest == (10 * x[1]) % x[2]
    IN Frac(IF 2 * rest < x[2] THEN tenths
            ELSE IF 2 * rest > x[2] THEN tenths + 1
            ELSE IF up THEN tenths + 1 ELSE tenths,
            10)

\* lines 152-153 of tokenizer.py and 136-137 of skills.py: the two rounded
\* percentages; up holds the way of the two roundings
percentages(used_percentage, up) ==
    [used_percentage |-> round1(used_percentage, up.used),
     remaining_percentage |->
         round1(Frac(100 * used_percentage[2] - used_percentage[1],
                     used_percentage[2]),
                up.remaining)]

calculate_context_metrics(tokens, model, up) ==
    LET context_window == get_context_window(model)
        used_percentage == calculate_context_percentage(tokens, context_window)
        rounded == percentages(used_percentage, up)
    IN [used_percentage |-> rounded.used_percentage,
        remaining_percentage |-> rounded.remaining_percentage,
        context_window_size |-> context_window,
        estimated_tokens |-> tokens]

\* get_initial_context_estimate(model) when estimate_skill_tokens() finds
\* skill_count SKILL.md files
get_initial_context_estimate(skill_count, model, up) ==
    LET skill_tokens == skill_count * TOKENS_PER_SKILL_METADATA
        context_window == get_context_window(model)
        used_percentage ==
            calculate_context_percentage(total_initial_tokens(skill_count),
                                         context_window)
        rounded == percentages(used_percentage, up)
    IN [skill_count |-> skill_count,
        skill_tokens |-> skill_tokens,
        system_prompt_tokens |-> SYSTEM_PROMPT_TOKENS,
        total_initial_tokens |-> total_initial_tokens(skill_count),
        used_percentage |-> rounded.used_percentage,
        remaining_percentage |-> rounded.remaining_percentage,
        context_window_size |-> context_window]

\* the model names asked for: none, keys of the table in either case, keys
\* with text around them, and a name that holds no key
ModelTexts ==
    {<<>>,
     <<"g", "p", "t", "-", "4">>,
     <<"G", "P", "T", "-", "4", "o">>,
     <<"f", "i", "n", "e", "-", "t", "u", "n", "e", "d", "-", "g", "p",
       "t", "-", "4", "o">>,
     <<"c", "l", "a", "u", "d", "e", "-", "3", ".", "5", "-", "s", "o",
       "n", "n", "e", "t">>,
     <<"f", "i", "n", "e", "-", "t", "u", "n", "e", "d", "-", "c", "l",
       "a", "u", "d", "e", "-", "3", ".", "5", "-", "s", "o", "n", "n",
       "e", "t", "-", "v", "2">>,
     <<"t", "o", "t", "a", "l", "l", "y", "-", "u", "n", "k", "n", "o",
       "w", "n", "-", "m", "o", "d", "e", "l">>,
     <<"g", "p", "t", "-", "4", "-", "t", "u", "r", "b", "o", "-", "p",
       "r", "e", "v", "i", "e", "w">>,
     <<"g", "e", "m", "i", "n", "i", "-", "1", ".", "5", "-", "p", "r", "o">>,
     <<"g", "e", "m", "i", "n", "i", "-", "1", ".", "5", "-", "p", "r",
       "o", "-", "g", "p", "t", "-", "4">>,
     <<"c", "l", "a", "u", "d", "e", "-", "4", ".", "5", "-", "s", "o",
       "n", "n", "e", "t">>}

\* token counts: multiples of 88, which is 0.05 percent of a window of 176000
\* tokens and so halfway between two tenths, and the counts of the tests
TokenCounts == {88 * n : n \in 0 .. MaxSteps} \cup {44000, 50000, 250000}
ContextWindows == {-1, 0, 8192, 176000, 200000}

\* numbers of SKILL.md files found; with 82 of them the initial estimate is
\* 6600 tokens, 3.75 percent of a window of 176000
SkillCounts == (0 .. MaxSkillFiles) \cup {82}

\* the text written n times
RECURSIVE Repeated(_, _)
Repeated(text, n) == IF n = 0 THEN <<>> ELSE text \o Repeated(text, n - 1)
Texts ==
    {Repeated(text, n) : text \in {<<"a">>, <<"H", "e", "l", "l", "o">>},
                         n \in 0 .. MaxRepeats}

\* the calls of the module, not yet run
TokenizerCalls ==
    [name : {"estimate_tokens"}, text : Texts, outcome : {Pending}]
    \cup [name : {"get_context_window"}, model : ModelTexts, outcome : {Pending}]
    \cup [name : {"calculate_context_percentage"}, tokens : TokenCounts,
          context_window : ContextWindows, outcome : {Pending}]
    \cup [name : {"calculate_context_metrics"}, tokens : TokenCounts,
          model : ModelTexts, outcome : {Pending}]
    \cup [name : {"get_initial_context_estimate"}, skill_count : SkillCounts,
          model : ModelTexts, outcome : {Pending}]

InitTokenizer ==
    /\ file = Missing
    /\ cache = [p \in Procs |-> None]
    /\ loaded = [p \in Procs |-> FALSE]
    /\ now = StartTime
    /\ pc = [p \in Procs |-> "idle"]
    /\ \E c \in TokenizerCalls :
           call = [p \in Procs |-> IF p = Main THEN c ELSE NoCall]
    /\ started = 0
    /\ hook = NoHook
    /\ emitted = None

\* the call of Main is the pending call of the function name
PendingCall(name) == call[Main].name = name /\ call[Main].outcome = Pending

Return(ret) ==
    /\ call' = [call EXCEPT ![Main].outcome = [raised |-> FALSE, ret |-> ret]]
    /\ UNCHANGED <<file, cache, loaded, now, pc, started, hook, emitted>>

EstimateTokens ==
    /\ PendingCall("estimate_tokens")
    /\ \E encoded \in {None} \cup {Some(n) : n \in 1 .. Len(call[Main].text)} :
           /\ call' = [call EXCEPT
                  ![Main] = [name |-> "estimate_tokens", text |-> call[Main].text,
                             encoded |-> encoded,
                             outcome |-> [raised |-> FALSE,
                                          ret |-> estimate_tokens(call[Main].text,
                                                                  encoded)]]]
           /\ UNCHANGED <<file, cache, loaded, now, pc, started, hook, emitted>>

GetContextWindow ==
    /\ PendingCall("get_context_window")
    /\ Return(get_context_window(call[Main].model))

CalculateContextPercentage ==
    /\ PendingCall("calculate_context_percentage")
    /\ Return(calculate_context_percentage(call[Main].tokens,
                                           call[Main].context_window))

CalculateContextMetrics ==
    /\ PendingCall("calculate_context_metrics")
    /\ \E up \in [used : BOOLEAN, remaining : BOOLEAN] :
           Return(calculate_context_metrics(call[Main].tokens, call[Main].model, up))

GetInitialContextEstimate ==
    /\ PendingCall("get_initial_context_estimate")
    /\ \E up \in [used : BOOLEAN, remaining : BOOLEAN] :
           Return(get_initial_context_estimate(call[Main].skill_count,
                                               call[Main].model, up))

NextTokenizer ==
    \/ EstimateTokens
    \/ GetContextWindow
    \/ CalculateContextPercentage
    \/ CalculateContextMetrics
    \/ GetInitialContextEstimate

SpecTokenizer == InitTokenizer /\ [][NextTokenizer]_vars

----------------------------------------------------------------------------
(* skills.py: estimate_skill_tokens and its cache.  Here file holds, for   *)
(* each directory of SKILL_DIRECTORIES, None when it does not exist and    *)
(* else the number of SKILL.md files below it; cache holds _skills_cache.  *)

SKILL_DIRECTORIES == {"~/.cursor/skills-cursor", "~/.claude/plugins/cache"}

\* len(find_skill_files()): directories that do not exist are skipped
RECURSIVE find_skill_files(_, _)
find_skill_files(disk, directories) ==
    IF directories = {} THEN 0
    ELSE LET skill_dir == CHOOSE d \in directories : TRUE
         IN (IF disk[skill_dir] = None THEN 0 ELSE disk[skill_dir][1])
            + find_skill_files(disk, directories \ {skill_dir})

\* estimate_skill_tokens scanning the directories at every call
estimate_skill_tokens_scanning(skills_cache, disk) ==
    LET skill_count == find_skill_files(disk, SKILL_DIRECTORIES)
    IN [ret |-> <<skill_count, skill_count * TOKENS_PER_SKILL_METADATA>>,
        scanned |-> TRUE]

\* estimate_skill_tokens(): the tuple returned, which is also what
\* _skills_cache holds afterwards
estimate_skill_tokens(skills_cache, disk) ==
    IF skills_cache # None THEN [ret |-> skills_cache[1], scanned |-> FALSE]
    ELSE LET skill_count == find_skill_files(disk, SKILL_DIRECTORIES)
         IN [ret |-> <<skill_count, skill_count * TOKENS_PER_SKILL_METADATA>>,
             scanned |-> TRUE]

InitSkills ==
    /\ file \in [SKILL_DIRECTORIES -> {None} \cup {Some(n) : n \in 0 .. MaxSkills}]
    /\ cache = [p \in Procs |-> None]
    /\ loaded = [p \in Procs |-> FALSE]
    /\ now = StartTime
    /\ pc = [p \in Procs |-> "idle"]
    /\ call = [p \in Procs |-> NoCall]
    /\ started = 0
    /\ hook = NoHook
    /\ emitted = None

\* a call of estimate_skill_tokens() by the process
EstimateSkillTokens ==
    /\ started < MaxSkillCalls
    /\ LET result == estimate_skill_tokens(cache[Main], file)
       IN /\ cache' = [cache EXCEPT ![Main] = Some(result.ret)]
          /\ call' = [call EXCEPT ![Main] =
                         [name |-> "estimate_skill_tokens", found |-> file,
                          scanned |-> result.scanned,
                          outcome |-> [raised |-> FALSE, ret |-> result.ret]]]
    /\ started' = started + 1
    /\ UNCHANGED <<file, loaded, now, pc, hook, emitted>>

\* a call of clear_cache() by the process
ClearCache ==
    /\ started < MaxSkillCalls
    /\ cache' = [cache EXCEPT ![Main] = None]
    /\ call' = [call EXCEPT ![Main] =
                   [name |-> "clear_cache",
                    outcome |-> [raised |-> FALSE, ret |-> None]]]
    /\ started' = started + 1
    /\ UNCHANGED <<file, loaded, now, pc, hook, emitted>>

\* skills are installed or removed, or a directory is created or deleted,
\* while the process runs
ChangeSkills ==
    /\ \E skill_dir \in SKILL_DIRECTORIES :
       \E content \in {None} \cup {Some(n) : n \in 0 .. MaxSkills} :
           /\ content # file[skill_dir]
           /\ file' = [file EXCEPT ![skill_dir] = content]
    /\ UNCHANGED <<cache, loaded, now, pc, call, started, hook, emitted>>

NextSkills ==
    \/ EstimateSkillTokens
    \/ ClearCache
    \/ ChangeSkills

SpecSkills == InitSkills /\ [][NextSkills]_vars


----------------------------------------------------------------------------
(* What a state holds, read without the store's own accessors *)

FileData == IF file.kind = "json" THEN file.data ELSE DefaultData

HasRecord(data, s) == s \in DOMAIN data.sessions
HasField(data, s, k) == HasRecord(data, s) /\ k \in DOMAIN data.sessions[s]
StoredFactor(data, s) ==
    IF HasField(data, s, "factor") THEN Some(data.sessions[s]["factor"]) ELSE None
InRange(f) == ~Less(f, Half) /\ ~Less(Two, f)
\* actual / estimate clamped into [0.5, 2.0], written out
ClampedRatio(actual, estimate) ==
    IF 2 * actual < estimate THEN Half
    ELSE IF actual > 2 * estimate THEN Two
    ELSE Frac(actual, estimate)

IsCall(p, name) == call[p].name = name
Calibrated(p) == IsCall(p, "calibrate_from_actual") /\ call[p].ret # None

----------------------------------------------------------------------------
(* C1 *)

\* C1: calibrate_from_actual(id, actual), called when the session's
\* last_estimate is estimate > 0, returns clamp(actual / estimate, 0.5, 2.0),
\* and a get_factor(id) that follows returns the value it returned.
C1_ReturnsClampedFactor ==
    \A p \in Procs :
        (IsCall(p, "calibrate_from_actual") /\ call[p].estimated # None
            /\ call[p].estimated[1] > 0)
        => /\ call[p].ret =
                Some(ClampedRatio(call[p].arg[1], call[p].estimated[1]))
           /\ Some(get_factor(Data(p), call[p].session_id)) = call[p].ret

\* the case of C1: a calibration whose ratio lies above 2.0 has run
C1_Witness ==
    /\ Calibrated(Main)
    /\ call[Main].arg[1] > 2 * call[Main].estimated[1]

----------------------------------------------------------------------------
(* C2 *)

C2_Range ==
    /\ \A s \in SessionIds :
          StoredFactor(FileData, s) # None => InRange(StoredFactor(FileData, s)[1])
    /\ \A p \in Procs, s \in SessionIds :
          /\ StoredFactor(Data(p), s) # None
                => InRange(StoredFactor(Data(p), s)[1])
          /\ InRange(get_factor(Data(p), s))

C2_Submitted ==
    \A p \in Procs :
        /\ IsCall(p, "set_factor") =>
              /\ StoredFactor(Data(p), call[p].session_id)
                    = Some(ClampedRatio(call[p].arg[1][1], call[p].arg[1][2]))
              /\ StoredFactor(FileData, call[p].session_id)
                    = StoredFactor(Data(p), call[p].session_id)
        /\ Calibrated(p) =>
              /\ StoredFactor(Data(p), call[p].session_id)
                    = Some(ClampedRatio(call[p].arg[1], call[p].estimated[1]))
              /\ StoredFactor(FileData, call[p].session_id)
                    = StoredFactor(Data(p), call[p].session_id)

\* a step that submits no factor for s leaves the factor of s as it was, or
\* removes it
C2_Kept ==
    \A s \in SessionIds :
        \/ /\ call'[Main] # call[Main]
           /\ call'[Main].session_id = s
           /\ \/ call'[Main].name = "set_factor"
              \/ call'[Main].name = "calibrate_from_actual" /\ call'[Main].ret # None
        \/ StoredFactor(FileData, s)' \in {StoredFactor(FileData, s), None}

\* C2: starting from an empty store, every factor held in the store is
\* clamp(f, 0.5, 2.0) of the value f last submitted for its session (by
\* set_factor or through calibrate_from_actual): it is that value right after
\* the submission and no other operation changes it; so every stored factor
\* and every result of get_factor lies within [0.5, 2.0].
C2_FactorIsClampOfLastSubmitted ==
    [](C2_Range /\ C2_Submitted) /\ [][C2_Kept]_vars

\* the case of C2: a factor above 2.0 was submitted and is held as 2.0
C2_Witness ==
    /\ IsCall(Main, "set_factor")
    /\ Less(Two, call[Main].arg[1])
    /\ StoredFactor(FileData, call[Main].session_id) = Some(Two)

----------------------------------------------------------------------------
(* C3 *)

\* the same store with the diagnostic average g and with session o's record
\* replaced by r (or removed)
Variant(data, g, o, r) ==
    [data EXCEPT !.global_factor = g,
                 !.sessions = IF r = None THEN Del(@, o) ELSE Put(@, o, r[1])]

OtherRecords ==
    {None, Some([last_estimate |-> 1, estimate_time |-> StartTime])}
    \cup {Some([factor |-> f, updated_at |-> StartTime]) : f \in {Half, Two}}

----------------------------------------------------------------------------
(* C4 *)

\* the session has no last_estimate, or one that is not positive
NoPositiveEstimate(data, s) ==
    \/ ~HasField(data, s, "last_estimate")
    \/ data.sessions[s]["last_estimate"] <= 0

C4_Step ==
    \A s \in SessionIds, a \in Actuals :
        (NoPositiveEstimate(Data(Main), s) /\ CalibrateFromActual(Main, s, a))
        => /\ call'[Main].ret = None
           /\ call'[Main].saves = 0
           /\ file' = file
           /\ Data(Main)' = Data(Main)

\* C4: calibrate_from_actual(id, actual) returns absent, writes nothing and
\* leaves the store (file and in-memory content) as it was whenever the
\* session has no last_estimate or a last_estimate that is not positive.
C4_NoEstimateNoChange == [][C4_Step]_vars

\* the case of C4: calibrate_from_actual has returned absent for a session
\* whose record holds a last_estimate that is not positive
C4_Witness ==
    /\ IsCall(Main, "calibrate_from_actual")
    /\ call[Main].ret = None
    /\ call[Main].estimated # None
    /\ HasField(FileData, call[Main].session_id, "last_estimate")
    /\ StoredFactor(FileData, call[Main].session_id) # None

----------------------------------------------------------------------------
(* C5 *)

C5_Cleared ==
    \A p \in Procs :
        IsCall(p, "clear_session") =>
            /\ ~HasRecord(Data(p), call[p].session_id)
            /\ ~HasRecord(FileData, call[p].session_id)
            /\ get_last_estimate(Data(p), call[p].session_id) = None
            /\ get_factor(Data(p), call[p].session_id) = One

\* a session without record stays without record until set_factor or
\* set_last_estimate is called for it
C5_StaysCleared ==
    \A s \in SessionIds :
        (~HasRecord(Data(Main), s) /\ ~HasRecord(FileData, s))
        => \/ /\ call'[Main].session_id = s
              /\ call'[Main].name \in {"set_factor", "set_last_estimate"}
           \/ /\ ~HasRecord(Data(Main)', s)
              /\ ~HasRecord(FileData', s)
              /\ get_last_estimate(Data(Main)', s) = None
              /\ get_factor(Data(Main)', s) = One

----------------------------------------------------------------------------
(* C6 *)

Finished(p) == pc[p] = "idle" /\ call[p].saves >= 1

\* the file shows what the finished writing call c did
EffectInFile(c) ==
    LET s == c.session_id
    IN /\ file.kind = "json"
       /\ c.name = "set_last_estimate" =>
             /\ HasField(FileData, s, "last_estimate")
             /\ FileData.sessions[s]["last_estimate"] = c.arg[1]
       /\ c.name = "set_factor" =>
             StoredFactor(FileData, s)
                = Some(ClampedRatio(c.arg[1][1], c.arg[1][2]))
       /\ c.name = "calibrate_from_actual" =>
             /\ StoredFactor(FileData, s)
                   = Some(ClampedRatio(c.arg[1], c.estimated[1]))
             /\ HasField(FileData, s, "last_actual")
             /\ FileData.sessions[s]["last_actual"] = c.arg[1]
       /\ c.name = "clear_session" => ~HasRecord(FileData, s)

\* C6: when two invocations have each finished a writing store call, the
\* file holds the effect of both; stated for calls on different sessions,
\* where neither call is meant to undo the other.
C6_NoLostUpdate ==
    \A p \in Procs : \A q \in Procs \ {p} :
        (Finished(p) /\ Finished(q)
            /\ call[p].session_id # call[q].session_id)
        => EffectInFile(call[p]) /\ EffectInFile(call[q])

----------------------------------------------------------------------------
(* C7 *)

\* C7: a load never reads an empty, truncated or partially written file: it
\* reads the complete text of before or of after a save (or no file).
C7_LoadSeesCompleteFile ==
    \A p \in Procs : call[p].read \in {"none", "cache", "missing", "json"}

----------------------------------------------------------------------------
(* C8 *)

\* C8: calibrate_from_actual publishes factor, last_actual and calibrated_at
\* in one change of the file: the file never holds the record with the
\* factor this call wrote while its last_actual is missing or another value.
C8_CalibrationPublishedAtOnce ==
    \A p \in Procs :
        LET s == call[p].session_id
        IN (/\ Calibrated(p)
            /\ call[p].saves >= 1
            /\ file.kind = "json"
            /\ HasField(FileData, s, "factor")
            /\ FileData.sessions[s]["factor"] = cache[p][1].sessions[s]["factor"]
            /\ FileData.sessions[s]["updated_at"]
                  = cache[p][1].sessions[s]["updated_at"])
           => /\ HasField(FileData, s, "last_actual")
              /\ FileData.sessions[s]["last_actual"] = call[p].arg[1]
              /\ HasField(FileData, s, "calibrated_at")

----------------------------------------------------------------------------
(* C9 *)

\* C9: after the session-end hook has run for a session, the store holds no
\* calibration record for that session.
C9_EndedSessionHasNoRecord ==
    (hook.name = "session_end" /\ hook.input.conversation_id # "")
    => ~HasRecord(FileData, hook.input.conversation_id)

----------------------------------------------------------------------------
(* C10 *)

Estimated == hook.name = "after_agent_response" /\ emitted # None

\* the count of the hook's input before calibration
UncalibratedTokens(input_data) ==
    input_data.transcript[1] * get_thinking_multiplier(get_model(input_data))
    + total_initial_tokens(input_data.skill_count)

C10_Emitted ==
    Estimated =>
        LET s == emitted[1].session_id
            n == emitted[1].total_input_tokens
        IN /\ emitted[1].event = "context_update"
           /\ s = hook.input.conversation_id
           /\ hook.factor # None
           /\ n = IntMul(UncalibratedTokens(hook.input), hook.factor[1])
           /\ HasField(FileData, s, "last_estimate")
           /\ FileData.sessions[s]["last_estimate"] = n
           /\ n > 0

\* the factor the hook applied is the one the store held when the hook began
C10_FactorRead ==
    (started' = started + 1 /\ Estimated')
    => hook'.factor =
          Some(IF StoredFactor(FileData, hook'.input.conversation_id) = None
               THEN One
               ELSE StoredFactor(FileData, hook'.input.conversation_id)[1])

\* a pre-compact hook that directly follows an emitted estimate of the same
\* session, with a positive actual count, calibrates against that estimate
C10_Denominator ==
    (/\ Estimated
     /\ started' = started + 1
     /\ hook'.name = "pre_compact"
     /\ hook'.input.conversation_id = emitted[1].session_id
     /\ hook'.input.context_tokens > 0)
    => /\ hook'.factor =
            Some(Frac(hook'.input.context_tokens, emitted[1].total_input_tokens))
       /\ HasField(FileData', emitted[1].session_id, "last_actual")

\* C10: whenever the after-agent-response hook emits a context_update for a
\* session, the emitted token count was computed with the factor get_factor
\* gave for that session at the start of the invocation, it equals the
\* last_estimate the invocation recorded for the session, and it is
\* positive; so a calibrate_from_actual that directly follows finds it as a
\* positive denominator.
C10_EmittedIsRecordedEstimate ==
    []C10_Emitted /\ [][C10_FactorRead /\ C10_Denominator]_vars

\* the case of C10: an estimate was emitted for a session whose factor, learnt
\* from an earlier pre-compact event, is not 1.0
C10_Witness ==
    /\ Estimated
    /\ hook.factor \notin {None, Some(One)}
    /\ emitted[1].total_input_tokens # UncalibratedTokens(hook.input)

----------------------------------------------------------------------------
(* C11 *)

\* C11: the emitted count of an agent turn is
\* int(((transcript estimate + skill/system-prompt overhead) * thinking
\* multiplier) * calibration factor): the multiplier scales the sum of the
\* transcript count and the overhead, and the factor is applied last.
C11_MultiplierScalesSum ==
    Estimated =>
        emitted[1].total_input_tokens =
            IntMul((hook.input.transcript[1]
                        + total_initial_tokens(hook.input.skill_count))
                       * get_thinking_multiplier(get_model(hook.input)),
                   hook.factor[1])

----------------------------------------------------------------------------
(* C12 *)

EstimationHooks == {"after_agent_response", "session_start"}

\* C12: every context_update handed to send_event carries the is_estimate
\* flag of its path: TRUE when the after-agent-response hook or the initial
\* estimate of session-start produced it, FALSE when the pre-compact hook
\* produced it; context_update comes from no other hook.
C12_FlagOfOwnPath ==
    \A i \in 1 .. Len(emitted) :
        emitted[i].event = "context_update" =>
            /\ hook.name \in EstimationHooks \cup {"pre_compact"}
            /\ "is_estimate" \in DOMAIN emitted[i]
            /\ emitted[i].is_estimate = (hook.name \in EstimationHooks)

\* the case of C12: a pre-compact hook that calibrated against an estimate
\* emitted earlier sends its actual count
C12_Witness ==
    /\ hook.name = "pre_compact"
    /\ hook.factor # None
    /\ Len(emitted) = 1
    /\ emitted[1].event = "context_update"
    /\ ~emitted[1].is_estimate

----------------------------------------------------------------------------
(* C13 *)

\* the whole content of the file is unusable: no file, no JSON text, or a
\* JSON value that is not an object
Unusable(f) == f.kind # "document" \/ f.value.type # "object"

\* the file is an object whose "sessions", or one of whose session records,
\* is not an object
Misshapen(f) ==
    /\ f.kind = "document"
    /\ f.value.type = "object"
    /\ "sessions" \in DOMAIN f.value.members
    /\ LET sessions == f.value.members["sessions"]
       IN \/ sessions.type # "object"
          \/ \E s \in DOMAIN sessions.members :
                 sessions.members[s].type # "object"

\* C13: whatever the calibration file holds that is not the expected session
\* map (missing, no JSON, a non-object top level, a "sessions" or a session
\* record that is not an object), a public store operation returns without
\* raising; when the whole content is unusable it returns what it returns on
\* an empty store.
C13_BadFileNeverRaises ==
    LET c == call[Main]
    IN (c.name \in StoreOperations /\ (Unusable(c.found) \/ Misshapen(c.found)))
       => /\ ~c.outcome.raised
          /\ Unusable(c.found) =>
                c.outcome.ret =
                    Outcome(c.name, Missing, c.session_id, c.arg, now).ret

----------------------------------------------------------------------------
(* C14 *)

\* the step that has just been taken is a store call whose save failed
FailedCall ==
    "save_failed" \in DOMAIN call[Main] /\ call[Main].seq = started
\* ... is an after-agent-response hook whose save failed
FailedHook == "save_failed" \in DOMAIN hook /\ hook.seq = started

C14_Step ==
    (started' = started + 1 /\ (FailedCall' \/ FailedHook'))
    => /\ file' = file
       /\ FailedCall' => call'[Main].name \in
              {"set_factor", "set_last_estimate", "calibrate_from_actual",
               "clear_session"}
       /\ FailedHook' =>
              /\ emitted' # None
              /\ emitted'[1].event = "context_update"
              /\ emitted'[1].total_input_tokens = hook'.total_tokens[1]

\* C14: when the save of the calibration file fails, the mutating store call
\* returns, the persisted file is as it was before the call, and the
\* after-agent-response hook of that invocation still emits its estimate.
C14_FailedSaveLeavesFile == [][C14_Step]_vars

----------------------------------------------------------------------------
(* C15 *)

\* the hook that has just run had no session id, or, for the estimation
\* hook, no transcript to read (no path, no file, or an empty file)
MissingInput ==
    /\ hook.name # "none"
    /\ \/ hook.input.conversation_id = ""
       \/ hook.name = "after_agent_response" /\ hook.input.transcript = None

C15_BuildersAbsent ==
    /\ \A i \in AfterAgentResponseInputs : \A n \in {0, 2500} :
           i.conversation_id = "" => build_context_estimate_payload(i, n) = None
    /\ \A i \in PreCompactInputs :
           i.conversation_id = "" => build_pre_compact_payload(i) = None
    /\ \A i \in SessionStartInputs :
           i.conversation_id = "" => build_session_start_payload(i) = None
    /\ \A i \in SessionEndInputs :
           i.conversation_id = "" => build_session_end_payload(i) = None

C15_Silent == MissingInput => emitted = None

C15_StoreKept == (started' = started + 1 /\ MissingInput') => file' = file

\* C15: a hook invocation with a missing input (no session id; for the
\* estimation hook no transcript path, no transcript file or an empty
\* transcript) emits no event and leaves the calibration file unchanged;
\* every payload builder returns absent for a missing or empty session id.
C15_MissingInputIsSilent ==
    [](C15_BuildersAbsent /\ C15_Silent) /\ [][C15_StoreKept]_vars

\* the case of C15: the estimation hook ran without a transcript for a
\* session that has a record in the store
C15_Witness ==
    /\ hook.name = "after_agent_response"
    /\ hook.input.transcript = None
    /\ HasRecord(FileData, hook.input.conversation_id)
    /\ emitted = None

----------------------------------------------------------------------------
(* C16 *)

\* the process that has just run called name and returned
Called(name) == call[Main].name = name /\ ~call[Main].outcome.raised

\* a process that calls the getter of a session right after the process
\* that called its setter
C16_Step ==
    /\ (/\ Called("set_factor")
        /\ call'[Main].name = "get_factor"
        /\ call'[Main].session_id = call[Main].session_id)
       => /\ ~call'[Main].outcome.raised
          /\ call'[Main].outcome.ret = Some(clamp(call[Main].arg))
    /\ (/\ Called("set_last_estimate")
        /\ call'[Main].name = "get_last_estimate"
        /\ call'[Main].session_id = call[Main].session_id)
       => /\ ~call'[Main].outcome.raised
          /\ call'[Main].outcome.ret = Some(call[Main].arg)

\* C16: what set_factor(id, f) or set_last_estimate(id, t) stored in one
\* process is what get_factor(id), respectively get_last_estimate(id),
\* returns in the next process, which loads the file afresh: the clamped
\* factor, respectively the estimate t.
C16_StoredSurvivesProcess == [][C16_Step]_vars

\* the case of C16: a process read from the file a factor that an earlier
\* process stored (no file holds a factor at the start)
C16_Witness ==
    /\ Called("get_factor")
    /\ call[Main].found.kind = "document"
    /\ call[Main].outcome.ret = Some(Two)

----------------------------------------------------------------------------
(* C17 *)

\* the records of data updated less than a day before t
UpdatedWithinDay(data, t) ==
    {s \in DOMAIN data.sessions :
        /\ HasField(data, s, "updated_at")
        /\ t - data.sessions[s]["updated_at"] < DAY}

RECURSIVE FactorSum(_, _)
FactorSum(data, S) ==
    IF S = {} THEN Frac(0, 1)
    ELSE LET s == CHOOSE x \in S : TRUE
         IN FAdd(data.sessions[s]["factor"], FactorSum(data, S \ {s}))

\* the step is a call of set_factor
SetFactorStep ==
    /\ now' = now
    /\ call'[Main].name = "set_factor"

C17_Step ==
    SetFactorStep =>
        LET data == FileData'
            recent == UpdatedWithinDay(data, now)
        IN /\ call'[Main].session_id \in recent
           /\ \A s \in recent : HasField(data, s, "factor")
           /\ data.global_factor =
                  FDivInt(FactorSum(data, recent), Cardinality(recent))

----------------------------------------------------------------------------
(* C18 *)

\* parse_context_output has run on the report
Parsed == call[Main].name = "parse_context_output" /\ call[Main].outcome # Pending

\* C18: parse_context_output raises for no input text: a header or category
\* line whose numeric field is malformed (1.2.3k, ...) is skipped.
C18_ParserNeverRaises == Parsed => ~call[Main].outcome.raised

----------------------------------------------------------------------------
(* C19 *)

\* the value a numeric field of the header stands for: times 1000 exactly
\* when it carries the k, then truncated
Scaled(number, k) ==
    IF k THEN IntMul(1000, Float(number)) ELSE Truncated(Float(number))

\* C19: the used and the max value of the header are each multiplied by 1000
\* exactly when they carry the thousands suffix, and truncated; the header
\* `claude-sonnet-4-5 · 48k/200k tokens (24%)` gives 48000, 200000 and 24.0.
C19_HeaderScaledBySuffix ==
    (Parsed /\ ~call[Main].outcome.raised /\ call[Main].outcome.ret # None) =>
        LET output == call[Main].arg
            breakdown == call[Main].outcome.ret[1]
            headers == {i \in 1 .. Len(output) : HeaderMatches(output[i])}
        IN headers # {} =>
              LET line == output[Min(headers)]
              IN /\ breakdown.total_tokens = Scaled(line.total, line.total_k)
                 /\ breakdown.max_tokens = Scaled(line.max, line.max_k)
                 /\ line = HeaderLine(SAMPLE.model, SAMPLE.n48, TRUE, SAMPLE.n200,
                                      TRUE, SAMPLE.n24)
                    => /\ breakdown.total_tokens = 48000
                       /\ breakdown.max_tokens = 200000
                       /\ breakdown.used_percentage = Frac(24, 1)

----------------------------------------------------------------------------
(* C20 *)

HasMarker(output) == \E i \in 1 .. Len(output) : output[i] = MarkerLine

\* C20: parse_context_output returns None exactly when "Context Usage" is
\* not in the input; when it is, a breakdown is returned, whose header fields
\* are the defaults if no header line matches and whose nine categories are
\* all empty if no category line matches.
C20_AbsentIffNoMarker ==
    Parsed =>
        LET output == call[Main].arg
            outcome == call[Main].outcome
        IN IF ~HasMarker(output)
           THEN ~outcome.raised /\ outcome.ret = None
           ELSE /\ ~outcome.raised
                /\ outcome.ret # None
                /\ (\A i \in 1 .. Len(output) : ~HeaderMatches(output[i]))
                   => /\ outcome.ret[1].model = <<>>
                      /\ outcome.ret[1].total_tokens = 0
                      /\ outcome.ret[1].max_tokens = 0
                      /\ outcome.ret[1].used_percentage = Frac(0, 1)
                /\ (\A i \in 1 .. Len(output) : ~CategoryMatches(output[i]))
                   => \A f \in CategoryFields :
                          outcome.ret[1].categories[f] = None

----------------------------------------------------------------------------
(* C21 *)

\* a line of the form `└ name: N tokens`, N an integer
ItemForm(line) == line.kind = "item" /\ RegexDigits(line.tokens)

\* line i of the output stands under the title of section k: that title is
\* the closest section title above it
Under(output, i, k) ==
    \E t \in 1 .. (i - 1) :
        /\ output[t] = SectionLine(Sections[k].name)
        /\ \A j \in (t + 1) .. (i - 1) : output[j].kind # "section"

\* the items written under the titles of section k, from line i on, in
\* textual order
RECURSIVE ItemsUnder(_, _, _)
ItemsUnder(output, k, i) ==
    IF i > Len(output) THEN <<>>
    ELSE IF ItemForm(output[i]) /\ Under(output, i, k)
         THEN <<[name |-> output[i].name, tokens |-> DecimalValue(output[i].tokens)]>>
              \o ItemsUnder(output, k, i + 1)
         ELSE ItemsUnder(output, k, i + 1)

\* C21: the item lines that stand under the title of an item-bearing section
\* (Skills, and likewise MCP tools, Custom agents, Memory files) are the items
\* of that section's category, each once and in textual order, and of no
\* other category.
C21_ItemsOfOwnSection ==
    (Parsed /\ ~call[Main].outcome.raised /\ call[Main].outcome.ret # None) =>
        LET output == call[Main].arg
            categories == call[Main].outcome.ret[1].categories
        IN \A k \in 1 .. Len(Sections) :
               LET category == categories[Sections[k].field]
                   under == ItemsUnder(output, k, 1)
               IN IF under = <<>>
                  THEN category = None \/ category[1].items = <<>>
                  ELSE category # None /\ category[1].items = under

----------------------------------------------------------------------------
(* C22 *)

\* a matched category line whose label holds none of the nine names
Unrecognised(line) == CategoryMatches(line) /\ category_field(line.name) = ""

\* the report without its line i
Without(output, i) == SubSeq(output, 1, i - 1) \o SubSeq(output, i + 1, Len(output))

\* C22: a matched category line sets the one slot its label selects by
\* case-insensitive substring match (a label holding "memory" sets
\* memory_files) and no other; a matched line whose label selects no slot
\* changes nothing: the parse does not fail on it and returns what it returns
\* for the report without that line.
C22_OneSlotByLabel ==
    (Parsed /\ HasMarker(call[Main].arg)) =>
        LET output == call[Main].arg
            outcome == call[Main].outcome
        IN /\ \A i \in 1 .. Len(output) :
                  (Unrecognised(output[i])
                   /\ ~parse_context_output(Without(output, i)).raised) =>
                      /\ ~outcome.raised
                      /\ outcome.ret[1].categories =
                             parse_context_output(Without(output, i)).ret[1].categories
           /\ ~outcome.raised =>
                  \A f \in CategoryFields :
                      LET lines == {i \in 1 .. Len(output) :
                                       /\ CategoryMatches(output[i])
                                       /\ category_field(output[i].name) = f}
                          slot == outcome.ret[1].categories[f]
                      IN IF lines = {} THEN slot = None
                         ELSE /\ slot # None
                              /\ \E i \in lines :
                                     /\ \A j \in lines : j <= i
                                     /\ slot[1].name = output[i].name

----------------------------------------------------------------------------
(* C23 *)

\* the last matched category line of the output that selects slot f, 0 if none
LastLineOf(output, f) ==
    LET lines == {i \in 1 .. Len(output) :
                     CategoryMatches(output[i]) /\ category_field(output[i].name) = f}
    IN IF lines = {} THEN 0 ELSE CHOOSE i \in lines : \A j \in lines : j <= i

\* C23: the token value of a category line is multiplied by 1000 only when it
\* carries the thousands suffix: `Memory files: 843 tokens (0.4%)` gives 843
\* and a value of 2.5k gives 2500.
C23_CategoryScaledBySuffix ==
    (Parsed /\ ~call[Main].outcome.raised /\ call[Main].outcome.ret # None) =>
        LET output == call[Main].arg
            categories == call[Main].outcome.ret[1].categories
        IN \A f \in CategoryFields :
               LastLineOf(output, f) # 0 =>
                   LET line == output[LastLineOf(output, f)]
                   IN /\ categories[f] # None
                      /\ categories[f][1].tokens = Scaled(line.value, line.k)
                      /\ (line.value = SAMPLE.n843 /\ ~line.k) =>
                             categories[f][1].tokens = 843
                      /\ (line.value = SAMPLE.n2_5 /\ line.k) =>
                             categories[f][1].tokens = 2500

\* a report with a value of 843 without the suffix and one of 2.5k has been
\* parsed
C23_Witness ==
    /\ Parsed /\ ~call[Main].outcome.raised /\ call[Main].outcome.ret # None
    /\ LET categories == call[Main].outcome.ret[1].categories
       IN /\ categories["memory_files"] # None
          /\ categories["memory_files"][1].tokens = 843
          /\ categories["skills"] # None
          /\ categories["skills"][1].tokens = 2500

----------------------------------------------------------------------------
(* C24 *)

\* the Items of the lines of the form `└ name: N tokens` among
\* output[i..last], in textual order
RECURSIVE ItemsWritten(_, _, _)
ItemsWritten(output, i, last) ==
    IF i > last THEN <<>>
    ELSE IF ItemForm(output[i])
         THEN <<[name |-> output[i].name, tokens |-> DecimalValue(output[i].tokens)]>>
              \o ItemsWritten(output, i + 1, last)
         ELSE ItemsWritten(output, i + 1, last)

\* C24: every line `<tree-marker> <item-name>: <integer> tokens` inside the
\* span of a section gives one Item with that name and count in the section's
\* category, in textual order, for every item name of the sample report: the
\* MCP tool names, the memory file CLAUDE.md and the skill names.
C24_EveryItemOfSpan ==
    (Parsed /\ ~call[Main].outcome.raised /\ call[Main].outcome.ret # None) =>
        LET output == call[Main].arg
            categories == call[Main].outcome.ret[1].categories
        IN \A k \in 1 .. Len(Sections) :
               LET span == section_lines(output, k)
                   category == categories[Sections[k].field]
               IN (category # None /\ span # <<>>) =>
                      category[1].items = ItemsWritten(output, span[1], span[2])

----------------------------------------------------------------------------
(* C25 *)

\* a category line as the report writes it: a glyph, a label, a number with
\* or without the k, and a percentage in parentheses; the word "tokens" may
\* or may not stand between them
CategoryForm(line) ==
    line.kind = "category" /\ RegexNumber(line.value) /\ RegexNumber(line.percent)

\* C25: every category line made of a glyph, a label, a number with optional
\* thousands suffix and a percentage in parentheses fills the slot of its
\* label; the line `Free space: 118k (58.9%)` of the sample report gives
\* free_space with 118000 tokens and 58.9 percent.
C25_EveryCategoryLineFills ==
    (Parsed /\ ~call[Main].outcome.raised /\ call[Main].outcome.ret # None) =>
        LET output == call[Main].arg
            categories == call[Main].outcome.ret[1].categories
        IN \A i \in 1 .. Len(output) :
               (CategoryForm(output[i]) /\ category_field(output[i].name) # "") =>
                   LET slot == categories[category_field(output[i].name)]
                   IN /\ slot # None
                      /\ output[i] = CategoryLine(SAMPLE.free_space, SAMPLE.n118,
                                                  TRUE, FALSE, SAMPLE.n58_9) =>
                             /\ slot[1].tokens = 118000
                             /\ slot[1].percentage = Frac(589, 10)

----------------------------------------------------------------------------
(* C26 *)

\* the call of Main is a finished call of the function name
Done(name) == call[Main].name = name /\ call[Main].outcome # Pending

\* min(100, 100 * tokens / window) when window > 0, else 0
UsedPercentage(tokens, window) ==
    IF window <= 0 THEN Frac(0, 1)
    ELSE IF tokens >= window THEN Frac(100, 1)
    ELSE Frac(100 * tokens, window)

\* 100 - used, for 0 <= used <= 100
RemainingOf(used) == Frac(100 * used[2] - used[1], used[2])

\* C26: for tokens >= 0 and any window, used_percentage is
\* min(100, 100 * tokens / window) when window > 0 and 0 when window <= 0,
\* so 0 <= used_percentage <= 100, and remaining_percentage is
\* 100 - used_percentage (rounded to one decimal in the metrics);
\* (50000, 200000) gives 25.0 and 75.0, (250000, 200000) gives 100.0 and a
\* window of 0 gives 0.0.
C26_PercentageOfWindow ==
    /\ Done("calculate_context_percentage") =>
           LET tokens == call[Main].tokens
               window == call[Main].context_window
               used == call[Main].outcome.ret
           IN /\ used = UsedPercentage(tokens, window)
              /\ ~Less(used, Frac(0, 1)) /\ ~Less(Frac(100, 1), used)
              /\ (tokens = 50000 /\ window = 200000) =>
                     used = Frac(25, 1) /\ RemainingOf(used) = Frac(75, 1)
              /\ (tokens = 250000 /\ window = 200000) => used = Frac(100, 1)
              /\ window = 0 => used = Frac(0, 1)
    /\ Done("calculate_context_metrics") =>
           LET ret == call[Main].outcome.ret
               used == UsedPercentage(call[Main].tokens, ret.context_window_size)
           IN /\ \E up \in BOOLEAN : ret.used_percentage = round1(used, up)
              /\ \E up \in BOOLEAN :
                     ret.remaining_percentage = round1(RemainingOf(used), up)
              /\ ~Less(ret.used_percentage, Frac(0, 1))
              /\ ~Less(Frac(100, 1), ret.used_percentage)
              /\ (call[Main].tokens = 44000 /\ ret.context_window_size = 176000) =>
                     /\ ret.used_percentage = Frac(25, 1)
                     /\ ret.remaining_percentage = Frac(75, 1)

\* the percentage of more tokens than the window holds has been computed, and
\* is capped
C26_Witness ==
    /\ Done("calculate_context_percentage")
    /\ call[Main].tokens = 250000
    /\ call[Main].context_window = 200000
    /\ call[Main].outcome.ret = Frac(100, 1)

----------------------------------------------------------------------------
(* C27 *)

\* the sum of the two rounded percentages of a result
SumOfPercentages(ret) == FAdd(ret.used_percentage, ret.remaining_percentage)

\* the rounded percentages of the result add up to 100.0 when the percentage
\* used is 0 or 100, and to 99.9, 100.0 or 100.1 otherwise
SumsToHundred(tokens, ret) ==
    LET used == UsedPercentage(tokens, ret.context_window_size)
        sum == SumOfPercentages(ret)
    IN IF used = Frac(0, 1) \/ used = Frac(100, 1)
       THEN sum = Frac(100, 1)
       ELSE ~Less(sum, Frac(999, 10)) /\ ~Less(Frac(1001, 10), sum)

\* C27: rounded to one decimal place, used_percentage + remaining_percentage
\* is exactly 100.0 when used_percentage is 0 or 100 and within 0.1 of 100.0
\* for every other pair of tokens and window, in calculate_context_metrics
\* and in get_initial_context_estimate alike.
C27_RoundedSumNearHundred ==
    /\ Done("calculate_context_metrics") =>
           SumsToHundred(call[Main].tokens, call[Main].outcome.ret)
    /\ Done("get_initial_context_estimate") =>
           SumsToHundred(call[Main].outcome.ret.total_initial_tokens,
                         call[Main].outcome.ret)

\* 264 tokens are 0.15 percent of the window: the metrics hold 0.1 and 99.8,
\* as the doubles round, and their sum is 99.9
C27_Witness ==
    /\ Done("calculate_context_metrics")
    /\ call[Main].tokens = 264
    /\ call[Main].outcome.ret.context_window_size = 176000
    /\ call[Main].outcome.ret.used_percentage = Frac(1, 10)
    /\ call[Main].outcome.ret.remaining_percentage = Frac(998, 10)
    /\ SumOfPercentages(call[Main].outcome.ret) = Frac(999, 10)

----------------------------------------------------------------------------
(* C28 *)

\* the entries of the table whose key, other than "default", occurs in the
\* lower-cased name
KeysIn(model) ==
    {i \in 1 .. Len(MODEL_CONTEXT_WINDOWS) :
        /\ MODEL_CONTEXT_WINDOWS[i].key # <<"d", "e", "f", "a", "u", "l", "t">>
        /\ Contains(MODEL_CONTEXT_WINDOWS[i].key, Lower(model))}

\* the window of the table entry "default"
DefaultWindow ==
    LET i == CHOOSE j \in 1 .. Len(MODEL_CONTEXT_WINDOWS) :
                 MODEL_CONTEXT_WINDOWS[j].key = <<"d", "e", "f", "a", "u", "l", "t">>
    IN MODEL_CONTEXT_WINDOWS[i].window

----------------------------------------------------------------------------
(* C29 *)

\* long is short written two or more times
RepetitionOf(long, short) ==
    short # <<>> /\ \E k \in 2 .. Len(long) : long = Repeated(short, k)

\* C29 as stated: estimate_tokens gives 0 for the empty or absent text and a
\* non-negative integer otherwise, floor(length / 4) without the tokenizer
\* backend, and strictly more for a text than for any non-empty text it
\* repeats two or more times.
C29_RepetitionCountsMore ==
    Done("estimate_tokens") =>
        LET text == call[Main].text
            ret == call[Main].outcome.ret
        IN /\ text = <<>> => ret = 0
           /\ ret \in Nat
           /\ call[Main].encoded = None =>
                  /\ ret = Len(text) \div 4
                  /\ \A short \in Texts :
                         RepetitionOf(text, short) =>
                             ret > estimate_tokens(short, None)

\* C29, amended: estimate_tokens gives 0 for the empty or absent text and a
\* non-negative integer otherwise; without the tokenizer backend it gives
\* floor(length / 4), which for a text that repeats a non-empty text two or
\* more times is never less than for the repeated text, and strictly more
\* exactly when the repeating text has four characters or more (a single
\* character written two or three times counts 0 tokens, as the character
\* itself does).
C29_RepetitionOfFourCountsMore ==
    Done("estimate_tokens") =>
        LET text == call[Main].text
            ret == call[Main].outcome.ret
        IN /\ text = <<>> => ret = 0
           /\ ret \in Nat
           /\ call[Main].encoded = None =>
                  /\ ret = Len(text) \div 4
                  /\ \A short \in Texts :
                         RepetitionOf(text, short) =>
                             /\ ret >= estimate_tokens(short, None)
                             /\ ret > estimate_tokens(short, None) <=> Len(text) >= 4

\* without the backend, the tokens of a character written four times have
\* been counted: one, and none for the character written once or twice
C29_Witness ==
    /\ Done("estimate_tokens")
    /\ call[Main].encoded = None
    /\ call[Main].text = Repeated(<<"a">>, 4)
    /\ call[Main].outcome.ret = 1
    /\ RepetitionOf(call[Main].text, <<"a">>)
    /\ RepetitionOf(call[Main].text, <<"a", "a">>)
    /\ estimate_tokens(<<"a", "a">>, None) = 0

----------------------------------------------------------------------------
(* C30 *)

\* the step is a call of estimate_skill_tokens
SkillsStep ==
    started' = started + 1 /\ call'[Main].name = "estimate_skill_tokens"

\* no directory of SKILL_DIRECTORIES exists
NoLocation == \A skill_dir \in SKILL_DIRECTORIES : file[skill_dir] = None

\* the number of SKILL.md files in the directories that exist
OnDisk ==
    LET counts == [d \in SKILL_DIRECTORIES |->
                      IF file[d] = None THEN 0 ELSE file[d][1]]
    IN counts["~/.cursor/skills-cursor"] + counts["~/.claude/plugins/cache"]

C30_Step ==
    SkillsStep =>
        LET ret == call'[Main].outcome.ret
        IN /\ ret[2] = ret[1] * TOKENS_PER_SKILL_METADATA
           /\ cache'[Main] = Some(ret)
           /\ cache[Main] # None => ret = cache[Main][1]
           /\ (cache[Main] # None /\ call[Main].name = "estimate_skill_tokens") =>
                  ret = call[Main].outcome.ret
           /\ cache[Main] = None => ret[1] = OnDisk
           /\ (cache[Main] = None /\ NoLocation) => ret = <<0, 0>>

\* C30: estimate_skill_tokens is memoized per process: a call with no
\* clear_cache since the call before returns the same (count, tokens) pair,
\* whatever SKILL.md files were added or removed meanwhile; the first call of
\* the process and the first after clear_cache scan the directories; tokens
\* is count times the cost of one descriptor; with no directory the pair is
\* (0, 0), and that pair is memoized as any other.
C30_MemoizedUntilCleared == [][C30_Step]_vars

\* a call has answered from the cache a pair that is no longer what the
\* directories hold, and the pair memoized is (0, 0)
C30_Witness ==
    /\ call[Main].name = "estimate_skill_tokens"
    /\ ~call[Main].scanned
    /\ call[Main].outcome.ret = <<0, 0>>
    /\ \E skill_dir \in SKILL_DIRECTORIES :
           call[Main].found[skill_dir] # None /\ call[Main].found[skill_dir][1] > 0

----------------------------------------------------------------------------
(* base.py: send_to_server, write_fallback and send_event.  Here file     *)
(* holds the fallback file (None while it does not exist, else its text)  *)
(* and emitted holds every character the collector has received.          *)

\* send_event is called at most MaxEvents times
MaxEvents == 3

\* json.dumps(payload): one line of text without a line break, or None where
\* it raises on a value JSON cannot encode
json_dumps(payload) ==
    IF payload.extra = "object" THEN None
    ELSE Some(<<"{", payload.event, "}">>)

\* send_to_server(payload): server.listening tells whether connect()
\* succeeds, server.takes how many characters the collector accepts before
\* the timeout
send_to_server(payload, server) ==
    IF ~server.listening \/ json_dumps(payload) = None
    THEN [ret |-> FALSE, sent |-> <<>>]
    ELSE LET data == json_dumps(payload)[1] \o <<"\n">>
         IN IF server.takes >= Len(data)
            THEN [ret |-> TRUE, sent |-> data]
            ELSE [ret |-> FALSE, sent |-> SubSeq(data, 1, server.takes)]

\* write_fallback opening the file with mode 'w'
write_fallback_truncating(payload, disk, fs) ==
    IF ~fs.writable THEN [ret |-> FALSE, file |-> disk]
    ELSE IF json_dumps(payload) = None THEN [ret |-> FALSE, file |-> Some(<<>>)]
    ELSE LET data == json_dumps(payload)[1] \o <<"\n">>
         IN IF fs.room >= Len(data)
            THEN [ret |-> TRUE, file |-> Some(data)]
            ELSE [ret |-> FALSE, file |-> Some(SubSeq(data, 1, fs.room))]

\* write_fallback(payload): fs.writable tells whether mkdir() and open()
\* succeed, fs.room how many characters the disk takes
write_fallback(payload, disk, fs) ==
    IF ~fs.writable THEN [ret |-> FALSE, file |-> disk]
    ELSE LET opened == IF disk = None THEN <<>> ELSE disk[1]
         IN IF json_dumps(payload) = None
            THEN [ret |-> FALSE, file |-> Some(opened)]
            ELSE LET data == json_dumps(payload)[1] \o <<"\n">>
                 IN IF fs.room >= Len(data)
                    THEN [ret |-> TRUE, file |-> Some(opened \o data)]
                    ELSE [ret |-> FALSE,
                          file |-> Some(opened \o SubSeq(data, 1, fs.room))]

\* send_event(payload, use_fallback)
send_event(payload, use_fallback, server, disk, fs) ==
    LET delivery == send_to_server(payload, server)
    IN IF delivery.ret
       THEN [ret |-> TRUE, sent |-> delivery.sent, file |-> disk]
       ELSE IF use_fallback
       THEN LET written == write_fallback(payload, disk, fs)
            IN [ret |-> written.ret, sent |-> delivery.sent,
                file |-> written.file]
       ELSE [ret |-> FALSE, sent |-> delivery.sent, file |-> disk]

Payloads == [event : {"activity", "idle"}, extra : {"text", "object"}]

\* how much of a line of four characters the collector or the disk takes
LineLengths == {0, 2, 4}

InitTransport ==
    /\ file \in {None, Some(<<>>), Some(<<"{", "idle", "}", "\n">>),
                 Some(<<"{", "idle">>)}
    /\ cache = [p \in Procs |-> None]
    /\ loaded = [p \in Procs |-> FALSE]
    /\ now = StartTime
    /\ pc = [p \in Procs |-> "idle"]
    /\ call = [p \in Procs |-> NoCall]
    /\ started = 0
    /\ hook = NoHook
    /\ emitted = <<>>

\* a call of send_event by a hook invocation
SendEvent ==
    /\ started < MaxEvents
    /\ \E payload \in Payloads, use_fallback \in BOOLEAN :
       \E server \in [listening : BOOLEAN, takes : LineLengths] :
       \E fs \in [writable : BOOLEAN, room : LineLengths] :
          LET result == send_event(payload, use_fallback, server, file, fs)
          IN /\ file' = result.file
             /\ emitted' = emitted \o result.sent
             /\ call' = [call EXCEPT ![Main] =
                            [name |-> "send_event", payload |-> payload,
                             use_fallback |-> use_fallback,
                             outcome |-> [raised |-> FALSE,
                                          ret |-> result.ret]]]
    /\ started' = started + 1
    /\ UNCHANGED <<cache, loaded, now, pc, hook>>

NextTransport == SendEvent

SpecTransport == InitTransport /\ [][NextTransport]_vars

\* the text of the fallback file (empty while the file does not exist)
FallbackText(f) == IF f = None THEN <<>> ELSE f[1]

\* the line a payload makes, where it can be encoded
LineOf(payload) == json_dumps(payload)[1] \o <<"\n">>

\* C31: send_event returns true when the whole line of the payload reached
\* the collector, and then leaves the fallback file alone; when it did not,
\* send_event with use_fallback returns true exactly when the line of the
\* payload was appended to the fallback file, and without use_fallback
\* returns false and leaves the file alone; in every case the text the file
\* held before is the beginning of the text it holds afterwards.
C31_Step ==
    started' = started + 1 =>
        LET c == call'[Main]
            ret == c.outcome.ret
            encodable == json_dumps(c.payload) # None
            delivered == encodable /\ emitted' = emitted \o LineOf(c.payload)
            appended == /\ encodable
                        /\ FallbackText(file') =
                               FallbackText(file) \o LineOf(c.payload)
            before == FallbackText(file)
            after == FallbackText(file')
        IN /\ delivered => ret /\ file' = file
           /\ ~delivered /\ c.use_fallback => (ret <=> appended)
           /\ ~delivered /\ ~c.use_fallback => ~ret /\ file' = file
           /\ Len(after) >= Len(before)
           /\ SubSeq(after, 1, Len(before)) = before

C31_DeliveredOrAppended == [][C31_Step]_vars

C31_Witness ==
    /\ started = MaxEvents
    /\ call[Main].name = "send_event"
    /\ call[Main].outcome.ret
    /\ call[Main].use_fallback
    /\ Len(FallbackText(file)) = 8
    /\ Len(emitted) = 6

----------------------------------------------------------------------------
(* C32 *)

\* the fields of a session's record that a calibration event writes
CalibrationFields == {"factor", "updated_at", "last_actual", "calibrated_at"}

\* the session's record in the dict, the empty dict where it has none
RecordOf(data, s) == Get(data.sessions, s, EmptyDict)

\* C32: a set_factor(id, f), called directly or by calibrate_from_actual,
\* leaves every field of the session's record other than factor,
\* last_actual and their timestamps as it was, so get_last_estimate(id)
\* returns afterwards what it returned before.
C32_Step ==
    LET c == call'[Main]
        s == c.session_id
        before == Data(Main)
        after == load_calibration(cache'[Main], loaded'[Main], file')
    IN (c.name \in {"set_factor", "calibrate_from_actual"} /\ c.saves >= 1)
       => /\ get_last_estimate(after, s) = get_last_estimate(before, s)
          /\ \A k \in DOMAIN RecordOf(before, s) \ CalibrationFields :
                /\ k \in DOMAIN RecordOf(after, s)
                /\ RecordOf(after, s)[k] = RecordOf(before, s)[k]

C32_CalibrationKeepsLastEstimate == [][C32_Step]_vars

----------------------------------------------------------------------------
(* The calibration loop of one session: after-agent-response and           *)
(* pre-compact hooks in any order, each time with the same transcript and  *)
(* the same reported context size.  call holds, under the name "session",  *)
(* these two inputs, which stay as they are.                               *)

\* the loop runs at most MaxRounds hook invocations
MaxRounds == 5

LoopSession == "s1"

InitLoop ==
    /\ file = Missing
    /\ cache = [p \in Procs |-> None]
    /\ loaded = [p \in Procs |-> FALSE]
    /\ now = StartTime
    /\ pc = [p \in Procs |-> "idle"]
    /\ \E i \in AfterAgentResponseInputs, j \in PreCompactInputs :
          /\ i.conversation_id = LoopSession
          /\ j.conversation_id = LoopSession
          /\ i.transcript # None
          /\ j.context_tokens > 0
          /\ call = [p \in Procs |->
                        IF p = Main
                        THEN [name |-> "session", estimate |-> i, actual |-> j]
                        ELSE NoCall]
    \* the count of hook invocations stops at MaxHooks: the loop begins
    \* MaxRounds invocations before that
    /\ started = MaxHooks - MaxRounds
    /\ hook = NoHook
    /\ emitted = None

NextLoop ==
    \/ AfterAgentResponse(call[Main].estimate)
    \/ PreCompact(call[Main].actual)

SpecLoop == InitLoop /\ [][NextLoop]_vars

\* C33: in the loop of a session whose uncalibrated estimate R and reported
\* actual count A stay as they are, with A / R within [0.5, 2.0]: once a
\* calibration of the session has been stored, every estimate the
\* after-agent-response hook emits is A, up to the truncation to an integer.
C33_CalibratedEstimateStaysAtActual ==
    LET A == call[Main].actual.context_tokens
        R == UncalibratedTokens(call[Main].estimate)
    IN (/\ hook.name = "after_agent_response"
        /\ HasField(FileData, LoopSession, "last_actual")
        /\ InRange(Frac(A, R)))
       => hook.total_tokens[1] \in {A - 1, A}

----------------------------------------------------------------------------
(* _load_calibration failing on a file that is intact (open or read        *)
(* raises): the exception is caught and logged, the cache keeps the        *)
(* defaults of lines 38-41 and _cache_loaded is set.                       *)

\* the store operation `name` called by invocation p, whose first
\* _load_calibration fails: it works on the defaults, where the readers,
\* calibrate_from_actual and clear_session find no record and save nothing
StoreCallLoadFails(p, name, session_id, arg) ==
    /\ ~(loaded[p] /\ cache[p] # None)
    /\ LET data ==
               CASE name = "set_factor" ->
                        set_factor(DefaultData, session_id, arg[1], now)
                 [] name = "set_last_estimate" ->
                        set_last_estimate(DefaultData, session_id, arg[1], now)
                 [] OTHER -> DefaultData
           saves == IF name \in {"set_factor", "set_last_estimate"} THEN 1 ELSE 0
           ret == IF name = "get_factor" THEN Some(One) ELSE None
       IN /\ Finish(p, data,
                    [CallOf(p, name, session_id, arg, None, ret, saves)
                        EXCEPT !.read = "error"])
          /\ file' = IF saves = 1 THEN Json(data) ELSE file

NextLoadFails ==
    \/ \E s \in SessionIds, f \in ConcFactors : SetFactor(Main, s, f)
    \/ \E s \in SessionIds, n \in ConcEstimates : SetLastEstimate(Main, s, n)
    \/ \E s \in SessionIds, a \in ConcActuals : CalibrateFromActual(Main, s, a)
    \/ \E s \in SessionIds : ClearSession(Main, s)
    \/ NewInvocation(Main)
    \/ \E s \in SessionIds :
       \E name \in {"get_factor", "get_last_estimate", "clear_session"} :
           StoreCallLoadFails(Main, name, s, None)
    \/ \E s \in SessionIds, f \in ConcFactors :
           StoreCallLoadFails(Main, "set_factor", s, Some(f))
    \/ \E s \in SessionIds, n \in ConcEstimates :
           StoreCallLoadFails(Main, "set_last_estimate", s, Some(n))
    \/ \E s \in SessionIds, a \in ConcActuals :
           StoreCallLoadFails(Main, "calibrate_from_actual", s, Some(a))

SpecLoadFails == Init /\ [][NextLoadFails]_vars

\* C34: a store call for a session that saves leaves in the file the record
\* of every other session that the file held before the call, as it was;
\* also when the call's _load_calibration failed and the call worked on the
\* empty structure.
C34_Step ==
    LET c == call'[Main]
    IN (/\ c.name \in {"set_factor", "set_last_estimate",
                       "calibrate_from_actual", "clear_session"}
        /\ c.saves >= 1
        /\ file.kind = "json")
       => \A B \in SessionIds \ {c.session_id} :
             HasRecord(file.data, B)
             => /\ file'.kind = "json"
                /\ HasRecord(file'.data, B)
                /\ file'.data.sessions[B] = file.data.sessions[B]

C34_OtherRecordsSurviveFailedLoad == [][C34_Step]_vars

----------------------------------------------------------------------------
(* The sequential store with get_calibration_stats *)

\* get_calibration_stats(), lines 228-236
get_calibration_stats(data) ==
    [session_count |-> Cardinality(DOMAIN data.sessions),
     global_factor |-> data.global_factor,
     calibrated_sessions |->
         Cardinality({s \in DOMAIN data.sessions :
                         "factor" \in DOMAIN data.sessions[s]})]

GetCalibrationStats(p) ==
    LET data == Data(p)
    IN /\ Finish(p, data, CallOf(p, "get_calibration_stats", "", None, None,
                                 Some(get_calibration_stats(data)), 0))
       /\ UNCHANGED file

NextStats ==
    \/ Next
    \/ GetCalibrationStats(Main)

SpecStats == Init /\ [][NextStats]_vars

\* the field of a session's record, None where record or field is absent
FieldOf(data, s, k) ==
    IF HasField(data, s, k) THEN Some(data.sessions[s][k]) ELSE None

\* the two dicts hold the same factor, last_estimate and last_actual for
\* every session but s
SameOthers(before, after, s) ==
    \A B \in SessionIds \ {s} :
        /\ HasRecord(after, B) <=> HasRecord(before, B)
        /\ \A k \in {"factor", "last_estimate", "last_actual"} :
              FieldOf(after, B, k) = FieldOf(before, B, k)

\* C35: in one process without I/O failure, set_factor, set_last_estimate,
\* calibrate_from_actual and clear_session for a session leave factor,
\* last_estimate and last_actual of every other session as they were, in
\* memory and in the file; get_factor, get_last_estimate and
\* get_calibration_stats change neither the store's content nor the file.
C35_Step ==
    LET c == call'[Main]
        before == Data(Main)
        after == load_calibration(cache'[Main], loaded'[Main], file')
    IN /\ c.name \in {"set_factor", "set_last_estimate",
                      "calibrate_from_actual", "clear_session"}
          => /\ SameOthers(before, after, c.session_id)
             /\ c.saves >= 1 => /\ file'.kind = "json"
                                /\ SameOthers(before, file'.data, c.session_id)
             /\ c.saves = 0 => file' = file
       /\ c.name \in {"get_factor", "get_last_estimate",
                      "get_calibration_stats"}
          => /\ file' = file
             /\ after = before

C35_OtherSessionsUntouched == [][C35_Step]_vars

\* the case of C35: a session was cleared while the other session holds a
\* factor, a last_estimate and a last_actual
C35_Witness ==
    /\ IsCall(Main, "clear_session")
    /\ call[Main].saves = 1
    /\ file.kind = "json"
    /\ \E B \in SessionIds \ {call[Main].session_id} :
          \A k \in {"factor", "last_estimate", "last_actual"} :
              HasField(FileData, B, k)

----------------------------------------------------------------------------
(* C36 *)

\* C36: an invocation reads the calibration file only at its first store
\* access and works on its in-memory copy afterwards; and every save
\* rewrites the whole file from that copy, so that when a save of an
\* invocation completes, the file holds exactly that invocation's snapshot,
\* whatever other invocations were saving meanwhile.
C36_Step ==
    \A p \in Procs :
        /\ (/\ pc[p] = "idle"
            /\ loaded[p]
            /\ call'[p] # call[p]
            /\ call'[p].name # "none")
           => call'[p].read = "cache"
        /\ (/\ pc[p] = "write"
            /\ call'[p].saves = call[p].saves + 1)
           => file' = Json(cache[p][1])

C36_LastSaverSnapshot == [][C36_Step]_vars

----------------------------------------------------------------------------
(* C37 *)

\* C37: a pre-compact hook changes the calibration file only when its
\* input holds a session id and a context_tokens above 0 and the file holds
\* a positive last_estimate for the session; with context_tokens missing or
\* not positive, or without session id, the file stays as it is.
C37_Step ==
    (started' = started + 1 /\ hook'.name = "pre_compact")
    => LET s == hook'.input.conversation_id
           n == hook'.input.context_tokens
       IN /\ file' # file
             => /\ s # ""
                /\ n > 0
                /\ HasField(FileData, s, "last_estimate")
                /\ FileData.sessions[s]["last_estimate"] > 0
          /\ (s = "" \/ n <= 0) => file' = file

C37_PreCompactChangesOnlyCalibrated == [][C37_Step]_vars

\* the case of C37: a pre-compact hook with a count that is not positive ran
\* for a session whose last_estimate is positive
C37_Witness ==
    /\ hook.name = "pre_compact"
    /\ hook.input.conversation_id # ""
    /\ hook.input.context_tokens < 0
    /\ HasField(FileData, hook.input.conversation_id, "last_estimate")
    /\ FileData.sessions[hook.input.conversation_id]["last_estimate"] > 0

----------------------------------------------------------------------------
(* Concurrent invocations, each of which goes on running: a process that   *)
(* is inside _save_calibration is scheduled again and again until it has   *)
(* taken its next step.                                                    *)

SpecConcFair ==
    /\ SpecConc
    /\ \A p \in Procs : WF_vars(SaveOpen(p)) /\ WF_vars(SaveWrite(p))

\* the next step of an invocation inside a store call can be taken, whatever
\* the other invocations are doing
NeverBlocked ==
    \A p \in Procs :
        /\ pc[p] = "open" => ENABLED SaveOpen(p)
        /\ pc[p] = "write" => ENABLED SaveWrite(p)

\* C38: no store call waits for another invocation: the next step of a call
\* under way can always be taken, and every call begun by an invocation
\* completes, however the invocations interleave.
C38_StoreCallsComplete ==
    /\ []NeverBlocked
    /\ \A p \in Procs : (pc[p] # "idle") ~> (pc[p] = "idle")

\* the case of C38: two invocations have each completed a saving call, and
\* their saves overlapped (the file holds the bytes of both)
C38_Witness ==
    /\ \A p \in Procs : pc[p] = "idle" /\ call[p].saves >= 1
    /\ file.kind = "corrupt"

----------------------------------------------------------------------------
(* Reports in which the four section names occur in any order and number:  *)
(* the marker, then category lines and section titles of the four          *)
(* item-bearing sections and item lines.                                   *)

\* a report of spans holds the marker and 0 .. MaxSpanLines lines
MaxSpanLines == 4

SpanLines ==
    {CategoryLine(Sections[k].name, SAMPLE.n2_5, TRUE, TRUE, SAMPLE.n2_5) :
        k \in 1 .. Len(Sections)}
    \cup {SectionLine(Sections[k].name) : k \in 1 .. Len(Sections)}
    \cup {ItemLine(SAMPLE.item, SAMPLE.n48)}

InitSpans ==
    /\ file = Missing
    /\ cache = [p \in Procs |-> None]
    /\ loaded = [p \in Procs |-> FALSE]
    /\ now = StartTime
    /\ pc = [p \in Procs |-> "idle"]
    /\ \E n \in 0 .. MaxSpanLines : \E body \in [1 .. n -> SpanLines] :
           call = [p \in Procs |->
                      IF p = Main
                      THEN [name |-> "parse_context_output",
                            arg |-> <<MarkerLine>> \o body,
                            outcome |-> Pending]
                      ELSE NoCall]
    /\ started = 0
    /\ hook = NoHook
    /\ emitted = None

SpecSpans == InitSpans /\ [][NextParser]_vars

\* the number of items the parser gave to the category of section k
Attributed(categories, k) ==
    IF categories[Sections[k].field] = None THEN 0
    ELSE Len(categories[Sections[k].field][1].items)

\* C39: the spans of text from which parse_context_output takes the items
\* of MCP tools, Custom agents, Memory files and Skills have no line in
\* common, wherever and however often the four names occur; so the
\* categories together hold no more items than the report has item lines.
C39_SpansDisjoint ==
    (Parsed /\ ~call[Main].outcome.raised /\ call[Main].outcome.ret # None) =>
        LET output == call[Main].arg
            categories == call[Main].outcome.ret[1].categories
            Span(k) == IF categories[Sections[k].field] = None THEN <<>>
                       ELSE section_lines(output, k)
        IN /\ \A k \in 1 .. Len(Sections) : \A j \in (1 .. Len(Sections)) \ {k} :
                  (Span(k) # <<>> /\ Span(j) # <<>>)
                  => (Span(k)[2] < Span(j)[1] \/ Span(j)[2] < Span(k)[1])
           /\ Attributed(categories, 1) + Attributed(categories, 2)
                 + Attributed(categories, 3) + Attributed(categories, 4)
              <= Cardinality({i \in 1 .. Len(output) : ItemMatches(output[i])})

\* the case of C39: two sections of one report each received an item
C39_Witness ==
    /\ Parsed
    /\ ~call[Main].outcome.raised
    /\ call[Main].outcome.ret # None
    /\ \E k \in 1 .. Len(Sections) : \E j \in (1 .. Len(Sections)) \ {k} :
          /\ Attributed(call[Main].outcome.ret[1].categories, k) > 0
          /\ Attributed(call[Main].outcome.ret[1].categories, j) > 0

====
